---- MODULE Spec2Model ----
(***************************************************************************)
(* Course provider plugin: the range Watcher (lib/alarms.ts), the host     *)
(* plugin (index.ts) and the calculation worker (worker/course.ts).        *)
(*                                                                         *)
(* JavaScript values that may or may not be numbers are carried as         *)
(* records: Num(n) is the number n, Undefined is a value whose typeof is   *)
(* not 'number', Null is null.                                             *)
(***************************************************************************)
EXTENDS Integers, Sequences, FiniteSets, TLC

VARIABLES
    w,          \* the stand-alone Watcher: its private fields
    prev,       \* the Watcher's fields before the last call
    last,       \* the last call made on the Watcher: [op, arg]
    emitted,    \* the WatchEvents the last call pushed on changeSource
    nth,        \* changed values fed since the last evaluation by setValue
                \* or since sampleSize was set
    phase,      \* sweep driver: "config", "sweep"
    fed,        \* sweep driver: the values fed since the sweep began
    log,        \* sweep driver: the WatchEvents emitted since the sweep began
    config,         \* plugin: the applied options
    srcPaths,       \* plugin: the last value of every subscribed path
    watchArrival,   \* plugin: Watcher of the distance to the destination
    watchPassedDest,\* plugin: Watcher of passedPerpendicular
    courseCalcs,    \* plugin: the last result received from the worker
    metaSent,       \* plugin: the meta delta was sent
    workerInbox,    \* snapshots posted to the worker and not yet taken
    activeDest,     \* worker: the last snapshot had all required positions
    hostInbox,      \* results posted by the worker and not yet handled
    sent,           \* messages passed to server.handleMessage by the last
                    \* calcResult
    baconSub,       \* plugin: the stream subscriptions are in place
    obs,            \* plugin: the Watchers' events are subscribed to
    handled,        \* worker: the snapshot handled last, when recorded
    rteLen,         \* routeRemaining of a snapshot, per calculation method
    args,           \* a function of the worker or the plugin called on its
                    \* own: the arguments
    returned        \* what that call returned

watcherVars == <<w, prev, last, emitted, nth>>
sweepVars == <<phase, fed, log>>
hostVars == <<config, srcPaths, watchArrival, watchPassedDest, courseCalcs,
              metaSent, workerInbox, activeDest, hostInbox, sent, baconSub,
              obs>>
calcVars == <<handled, rteLen, args, returned>>
vars == <<w, prev, last, emitted, nth, phase, fed, log, config, srcPaths,
          watchArrival, watchPassedDest, courseCalcs, metaSent, workerInbox,
          activeDest, hostInbox, sent, baconSub, obs, handled, rteLen,
          args, returned>>

----------------------------------------------------------------------------
(* Bounds *)

MaxValue == 3        \* watcher values and bounds range over -1..MaxValue
MaxSample == 2       \* sample sizes range over 0..MaxSample
MaxDist == 1         \* great-circle distances range over 0..MaxDist
MaxExcess == 1       \* rhumb distance - great-circle distance: 0..MaxExcess
MaxCircle == 0       \* arrival circle radii range over 0..MaxCircle
MaxPending == 1      \* snapshots and results in flight, plugin runs
MaxQueued == 2       \* snapshots and results in flight, queue runs
MaxSpeed == 3        \* speeds over ground range over 0..MaxSpeed
MaxTime == 2         \* target arrival times range over 0..MaxTime seconds
MaxWaypoints == 3    \* routes have up to MaxWaypoints waypoints
MaxCoord == 2        \* route waypoints lie at 0..MaxCoord along a line
MaxAngle == 9        \* angles range over -MaxAngle..MaxAngle quarter turns
MaxXte == 1          \* cross-track distances range over -MaxXte..MaxXte
MaxVariation == 5    \* magnetic variations: -MaxVariation..MaxVariation
MaxLat == 1          \* latitudes range over -MaxLat..MaxLat degrees
MaxOffset == 1       \* longitudes lie within MaxOffset degrees of a meridian
MaxRun == 3          \* snapshots the worker receives in a row
                     \* of Meridians

----------------------------------------------------------------------------
(* JavaScript values *)

Num(n) == [num |-> n]
Undefined == [undefined |-> TRUE]
Null == [null |-> TRUE]
IsNumber(x) == "num" \in DOMAIN x

Values == -1 .. MaxValue
JsValues == {Num(n) : n \in Values} \cup {Undefined}
SampleSizes == {Num(n) : n \in 0 .. MaxSample} \cup {Undefined}

----------------------------------------------------------------------------
(* lib/alarms.ts: class Watcher *)

\* the fields of a Watcher as constructed
NewWatcher ==
    [rangeMin |-> 0, rangeMax |-> 100, sampleCount |-> 0, sampleSize |-> 1,
     val |-> -1, inRange |-> FALSE]

\* isInRange with the upper bound excluded
isInRange_Strict(wt, x) ==
    IsNumber(x) /\ x.num < wt.rangeMax /\ x.num >= wt.rangeMin

\* isInRange(value): value is a JavaScript value
isInRange(wt, x) ==
    IsNumber(x) /\ x.num <= wt.rangeMax /\ x.num >= wt.rangeMin

\* _setValue(val): called by the value setter after _val and _sampleCount
\* were updated, so wt.val is already the new value
W_setValue(wt, x) ==
    IF wt.sampleCount < wt.sampleSize
    THEN [w |-> wt, ev |-> <<>>]
    ELSE IF ~IsNumber(x)
    THEN [w |-> wt, ev |-> <<[type |-> "exit", value |-> x]>>]
    ELSE LET testInRange == isInRange(wt, x)
             val == x.num
             ev == IF testInRange
                   THEN IF wt.inRange
                        THEN <<[type |-> "in", value |-> val]>>
                        ELSE <<[type |-> "enter", value |-> val,
                                fromBelow |-> (wt.val < wt.rangeMin)]>>
                   ELSE IF wt.inRange
                        THEN <<[type |-> "exit", value |-> val,
                                isBelow |-> (val < wt.rangeMin)]>>
                        ELSE <<>>
         IN [w |-> [wt EXCEPT !.inRange = testInRange, !.val = val,
                              !.sampleCount = 0],
             ev |-> ev]

\* _setRange emitting its event without storing the new flag
W_setRange_KeepFlag(wt) ==
    LET testInRange == isInRange(wt, Num(wt.val))
        ev == IF testInRange
              THEN IF wt.inRange
                   THEN <<[type |-> "in", value |-> wt.val]>>
                   ELSE <<[type |-> "enter", value |-> wt.val,
                           fromBelow |-> (wt.val < wt.rangeMin)]>>
              ELSE IF wt.inRange
                   THEN <<[type |-> "exit", value |-> wt.val,
                           isBelow |-> (wt.val < wt.rangeMin)]>>
                   ELSE <<>>
    IN [w |-> wt, ev |-> ev]

\* _setRange(): called by the range setters after the bound was updated
W_setRange(wt) ==
    LET testInRange == isInRange(wt, Num(wt.val))
        ev == IF testInRange
              THEN IF wt.inRange
                   THEN <<[type |-> "in", value |-> wt.val]>>
                   ELSE <<[type |-> "enter", value |-> wt.val,
                           fromBelow |-> (wt.val < wt.rangeMin)]>>
              ELSE IF wt.inRange
                   THEN <<[type |-> "exit", value |-> wt.val,
                           isBelow |-> (wt.val < wt.rangeMin)]>>
                   ELSE <<>>
    IN [w |-> [wt EXCEPT !.inRange = testInRange], ev |-> ev]

\* the value setter without its hasChanged test
WSetValue_Always(wt, x) ==
    IF ~IsNumber(x)
    THEN [w |-> wt, ev |-> <<>>]
    ELSE W_setValue([wt EXCEPT !.val = x.num, !.sampleCount = @ + 1], x)

\* set value(val)
WSetValue(wt, x) ==
    IF ~IsNumber(x)
    THEN [w |-> wt, ev |-> <<>>]
    ELSE LET hasChanged == wt.val # x.num
             w1 == [wt EXCEPT !.val = x.num]
         IN IF hasChanged
            THEN W_setValue([w1 EXCEPT !.sampleCount = @ + 1], x)
            ELSE [w |-> w1, ev |-> <<>>]

\* the rangeMax setter evaluating the range before it stores the bound
WSetRangeMax_StaleBound(wt, x) ==
    IF ~IsNumber(x)
    THEN [w |-> wt, ev |-> <<>>]
    ELSE LET hasChanged == wt.rangeMax # x.num
             r == W_setRange(wt)
         IN IF hasChanged
            THEN [w |-> [r.w EXCEPT !.rangeMax = x.num], ev |-> r.ev]
            ELSE [w |-> wt, ev |-> <<>>]

\* set rangeMax(value)
WSetRangeMax(wt, x) ==
    IF ~IsNumber(x)
    THEN [w |-> wt, ev |-> <<>>]
    ELSE LET hasChanged == wt.rangeMax # x.num
             w1 == [wt EXCEPT !.rangeMax = x.num]
         IN IF hasChanged THEN W_setRange(w1) ELSE [w |-> w1, ev |-> <<>>]

\* the rangeMin setter without the evaluation of the range
WSetRangeMin_NoEvaluation(wt, x) ==
    IF ~IsNumber(x)
    THEN [w |-> wt, ev |-> <<>>]
    ELSE [w |-> [wt EXCEPT !.rangeMin = x.num], ev |-> <<>>]

\* set rangeMin(value)
WSetRangeMin(wt, x) ==
    IF ~IsNumber(x)
    THEN [w |-> wt, ev |-> <<>>]
    ELSE LET hasChanged == wt.rangeMin # x.num
             w1 == [wt EXCEPT !.rangeMin = x.num]
         IN IF hasChanged THEN W_setRange(w1) ELSE [w |-> w1, ev |-> <<>>]

\* the sampleSize setter without the reset of the sample counter
WSetSampleSize_KeepCount(wt, x) ==
    [wt EXCEPT !.sampleSize = IF IsNumber(x) /\ x.num > 0 THEN x.num ELSE @]

\* set sampleSize(value)
WSetSampleSize(wt, x) ==
    [wt EXCEPT !.sampleSize = IF IsNumber(x) /\ x.num > 0 THEN x.num ELSE @,
               !.sampleCount = 0]

----------------------------------------------------------------------------
(* index.ts, worker/course.ts: the values exchanged *)

EmptyObj == [f \in {} |-> 0]
Has(obj, f) == f \in DOMAIN obj
\* JavaScript truthiness of null, undefined, numbers and objects
Truthy(x) == x \notin {Null, Undefined, Num(0)}
\* src[path]: undefined when the snapshot has no such path
Field(src, f) == IF Has(src, f) THEN src[f] ELSE Undefined
\* a number that need not be whole: n / d
Frac(n, d) == [num |-> n, den |-> d]
\* an array, Array.isArray
Arr(seq) == [arr |-> seq]
IsArray(x) == "arr" \in DOMAIN x
\* a point in time, in seconds: a datetime string, new Date(string)
Date(t) == [time |-> t]
\* new Date(msec).toISOString()
IsoString(msec) == [iso |-> msec]
Str(t) == [str |-> t]

\* A vessel position is named by what the geodesy library computes from it
\* against the destination and the leg origin: the great-circle distance gc,
\* the rhumb-line distance rl >= gc and the passedPerpendicular test.
Points ==
    {[gc |-> g, rl |-> g + e, passed |-> b] :
        g \in 0 .. MaxDist, e \in 0 .. MaxExcess, b \in BOOLEAN}

\* the value of navigation.course.nextPoint / previousPoint when set
Waypoint == [position |-> [latitude |-> 0, longitude |-> 1]]

Positions == Points \cup {Null}
Circles == {Num(c) : c \in 0 .. MaxCircle} \cup {Null}
Waypoints == {Waypoint, Null}
Options == [sound : BOOLEAN, method : {"GreatCircle", "Rhumbline"}]

\* config as declared, before options are applied
DefaultConfig == [sound |-> FALSE, method |-> "GreatCircle"]

\* srcPaths after getPaths on a server that has no value for any path
NoPaths ==
    [position |-> Null, arrivalCircle |-> Null, nextPoint |-> Null,
     previousPoint |-> Null]

----------------------------------------------------------------------------
(* worker/course.ts *)

EmptyResult == [gc |-> EmptyObj, rl |-> EmptyObj]

\* parseSKPaths without the test of the leg origin
parseSKPaths_NoOrigin(src) ==
    /\ Truthy(src.position)
    /\ Has(src.nextPoint, "position")

\* parseSKPaths(src): all required positions are present
parseSKPaths(src) ==
    /\ Truthy(src.position)
    /\ Has(src.nextPoint, "position")
    /\ Has(src.previousPoint, "position")

\* Angles are counted in quarter turns
Pi == 2
TwoPi == 4
\* the worker's clock, new Date(), in seconds
Now == 0

Abs(a) == IF a < 0 THEN -a ELSE a
\* Math.floor(a / b)
FloorDiv(a, b) == IF b > 0 THEN a \div b ELSE (-a) \div (-b)
\* Math.cos at the whole multiples of pi, where it is exact
Cos(a) ==
    CASE a % TwoPi = 0 -> 1
      [] a % TwoPi = Pi -> -1

\* The geodesy library on the vessel position p (see Points) and on route
\* waypoints, which are named by a coordinate along the route's line.
\* A position may also name its cross-track distance and, in radians, its
\* bearings to the destination and the bearing of the leg; they are 0 for
\* a position that does not.
crossTrackDistanceTo(p) == IF Has(p, "xte") THEN p.xte ELSE 0
initialBearingTo(p) == IF Has(p, "bearing") THEN p.bearing ELSE 0
rhumbBearingTo(p) == IF Has(p, "rhumbBearing") THEN p.rhumbBearing ELSE 0
trackBearing(src) ==
    IF Has(src.position, "track") THEN src.position.track ELSE 0
distanceToStart(p) == p.gc + 1
rhumbDistanceToStart(p) == p.rl + 1
distanceTo(a, b) == Abs(a - b)
rhumbDistanceTo(a, b) == 2 * Abs(a - b)

\* compassAngle that brings no angle down by a turn
compassAngle_NoWrapDown(angle) ==
    IF angle < 0 THEN angle + TwoPi ELSE angle

compassAngle(angle) ==
    IF angle < 0 THEN angle + TwoPi
    ELSE IF angle >= TwoPi THEN angle - TwoPi
    ELSE angle

\* Angle.normalise
normalise(a) ==
    IF a < 0 THEN a + TwoPi ELSE IF a >= TwoPi THEN a - TwoPi ELSE a

\* Angle.difference with half a turn counted to port
difference_PortAtPi(h, b) ==
    LET d == TwoPi - b
        hd == h + d
        a == normalise(hd)
    IN IF a <= Pi THEN 0 - a ELSE TwoPi - a

\* Angle.difference
difference(h, b) ==
    LET d == TwoPi - b
        hd == h + d
        a == normalise(hd)
    IN IF a < Pi THEN 0 - a ELSE TwoPi - a

\* vmg(src): Velocity Made Good to wind
vmg(src) ==
    LET wind == Field(src, "windAngleTrueGround")
        sog == Field(src, "speedOverGround")
    IN IF ~IsNumber(wind) \/ ~IsNumber(sog) THEN Null
       ELSE Num(Cos(wind.num) * sog.num)

\* vmc giving up also when the wind angle is missing
vmc_NeedsWind(src, bearing, bearingType) ==
    LET cog == IF bearingType = "true"
               THEN Field(src, "courseOverGroundTrue")
               ELSE Field(src, "courseOverGroundMagnetic")
        sog == Field(src, "speedOverGround")
        wind == Field(src, "windAngleTrueGround")
    IN IF ~IsNumber(cog) \/ ~IsNumber(sog) \/ ~IsNumber(wind) THEN Null
       ELSE Num(Cos(Abs(difference(bearing, cog.num))) * sog.num)

\* vmc reading the magnetic course over ground for a true bearing
vmc_MagneticCourse(src, bearing, bearingType) ==
    LET cog == IF bearingType = "true"
               THEN Field(src, "courseOverGroundMagnetic")
               ELSE Field(src, "courseOverGroundTrue")
        sog == Field(src, "speedOverGround")
    IN IF ~IsNumber(cog) \/ ~IsNumber(sog) THEN Null
       ELSE Num(Cos(Abs(difference(bearing, cog.num))) * sog.num)

\* vmc(src, bearing, bearingType): Velocity Made Good to Course
vmc(src, bearing, bearingType) ==
    LET cog == IF bearingType = "true"
               THEN Field(src, "courseOverGroundTrue")
               ELSE Field(src, "courseOverGroundMagnetic")
        sog == Field(src, "speedOverGround")
    IN IF ~IsNumber(cog) \/ ~IsNumber(sog) THEN Null
       ELSE Num(Cos(Abs(difference(bearing, cog.num))) * sog.num)

RECURSIVE sumSegments_GreatCircle(_, _, _, _)
\* the loop summing great-circle lengths whatever the method
sumSegments_GreatCircle(wpts, idx, lastIndex, rhumbLine) ==
    IF idx < lastIndex
    THEN distanceTo(wpts[idx + 1], wpts[idx + 2])
         + sumSegments_GreatCircle(wpts, idx + 1, lastIndex, rhumbLine)
    ELSE 0

RECURSIVE sumSegments(_, _, _, _)
\* routeRemaining: the loop 'for (idx; idx < lastIndex; idx++)' from idx on
sumSegments(wpts, idx, lastIndex, rhumbLine) ==
    IF idx < lastIndex
    THEN (IF rhumbLine
          THEN rhumbDistanceTo(wpts[idx + 1], wpts[idx + 2])
          ELSE distanceTo(wpts[idx + 1], wpts[idx + 2]))
         + sumSegments(wpts, idx + 1, lastIndex, rhumbLine)
    ELSE 0

\* routeRemaining without the test of the end of a reversed route
routeRemaining_NoReverseEnd(src, rhumbLine) ==
    LET route == Field(src, "activeRoute")
        pointIndex == Field(route, "pointIndex")
        waypoints == Field(route, "waypoints")
    IN IF pointIndex = Null \/ ~IsArray(waypoints) THEN 0
       ELSE IF Len(waypoints.arr) < 2 THEN 0
       ELSE LET lastIndex == Len(waypoints.arr) - 1
            IN IF route.reverse
               THEN sumSegments(waypoints.arr, 0, lastIndex, rhumbLine)
               ELSE IF pointIndex.num = lastIndex THEN 0
                    ELSE sumSegments(waypoints.arr, pointIndex.num,
                                     lastIndex, rhumbLine)

\* routeRemaining(src, rhumbLine): total length of the remaining route
\* segments; waypoints[k + 1] is the source's wpts[k]
routeRemaining(src, rhumbLine) ==
    LET route == Field(src, "activeRoute")
        pointIndex == Field(route, "pointIndex")
        waypoints == Field(route, "waypoints")
    IN IF pointIndex = Null \/ ~IsArray(waypoints) THEN 0
       ELSE IF Len(waypoints.arr) < 2 THEN 0
       ELSE LET reverse == route.reverse
                ptIndex == pointIndex.num
                lastIndex == Len(waypoints.arr) - 1
                toIndex == lastIndex - ptIndex
            IN IF reverse
               THEN IF toIndex = 0 THEN 0
                    ELSE sumSegments(waypoints.arr, 0, lastIndex, rhumbLine)
               ELSE IF ptIndex = lastIndex THEN 0
                    ELSE sumSegments(waypoints.arr, ptIndex, lastIndex,
                                     rhumbLine)

\* the reference time taken from the worker's clock alone
dateMsec_ClockOnly(src) == Now * 1000

\* 'src[navigation.datetime] ? new Date(...) : new Date()', getTime()
dateMsec(src) ==
    IF Truthy(Field(src, "datetime"))
    THEN Field(src, "datetime").time * 1000
    ELSE Now * 1000

\* timeCalcs taking an empty array of waypoints for a route
timeCalcs_AnyArray(src, distance, v, rhumbLine) ==
    LET waypoints == Field(Field(src, "activeRoute"), "waypoints")
        isRoute == IsArray(waypoints)
        nextTtgMsec == FloorDiv(distance.num * 1000, v.num)
        rteDistance == distance.num + routeRemaining(src, rhumbLine)
        routeTtgMsec == FloorDiv(rteDistance * 1000, v.num)
    IN IF ~IsNumber(distance) \/ ~Truthy(v)
       THEN [nextPoint |-> [ttg |-> Null, eta |-> Null],
             route |-> [ttg |-> Null, eta |-> Null, dtg |-> Null]]
       ELSE [nextPoint |->
               [ttg |-> Frac(nextTtgMsec, 1000),
                eta |-> IsoString(dateMsec(src) + nextTtgMsec)],
             route |->
               IF isRoute
               THEN [ttg |-> Frac(routeTtgMsec, 1000),
                     eta |-> IsoString(dateMsec(src) + routeTtgMsec),
                     dtg |-> Num(rteDistance)]
               ELSE [ttg |-> Null, eta |-> Null, dtg |-> Null]]

\* timeCalcs(src, distance, vmc, rhumbLine): ttg in seconds, eta as the ISO
\* string of a time in milliseconds
timeCalcs(src, distance, v, rhumbLine) ==
    LET waypoints == Field(Field(src, "activeRoute"), "waypoints")
        isRoute == IsArray(waypoints) /\ Len(waypoints.arr) # 0
        nextTtgMsec == FloorDiv(distance.num * 1000, v.num)
        rteDistance == distance.num + routeRemaining(src, rhumbLine)
        routeTtgMsec == FloorDiv(rteDistance * 1000, v.num)
    IN IF ~IsNumber(distance) \/ ~Truthy(v)
       THEN [nextPoint |-> [ttg |-> Null, eta |-> Null],
             route |-> [ttg |-> Null, eta |-> Null, dtg |-> Null]]
       ELSE [nextPoint |->
               [ttg |-> Frac(nextTtgMsec, 1000),
                eta |-> IsoString(dateMsec(src) + nextTtgMsec)],
             route |->
               IF isRoute
               THEN [ttg |-> Frac(routeTtgMsec, 1000),
                     eta |-> IsoString(dateMsec(src) + routeTtgMsec),
                     dtg |-> Num(rteDistance)]
               ELSE [ttg |-> Null, eta |-> Null, dtg |-> Null]]

\* targetSpeed without the test for a target time that has passed
targetSpeed_PastTarget(src, distance, rhumbLine) ==
    LET tat == Field(src, "targetArrivalTime")
        waypoints == Field(Field(src, "activeRoute"), "waypoints")
        total == IF Truthy(waypoints)
                 THEN distance.num + routeRemaining(src, rhumbLine)
                 ELSE distance.num
        tatMsec == tat.time * 1000
    IN IF ~IsNumber(distance) \/ ~Truthy(tat) THEN Null
       ELSE Frac(total * 1000, tatMsec - dateMsec(src))

\* targetSpeed(src, distance, rhumbLine): average speed required to arrive
\* at targetArrivalTime
targetSpeed(src, distance, rhumbLine) ==
    LET tat == Field(src, "targetArrivalTime")
        waypoints == Field(Field(src, "activeRoute"), "waypoints")
        total == IF Truthy(waypoints)
                 THEN distance.num + routeRemaining(src, rhumbLine)
                 ELSE distance.num
        tatMsec == tat.time * 1000
    IN IF ~IsNumber(distance) \/ ~Truthy(tat) THEN Null
       ELSE IF tatMsec <= dateMsec(src) THEN Null
       ELSE Frac(total * 1000, tatMsec - dateMsec(src))

\* Not-a-Number, and the exact square root of a whole number
NaN == [nan |-> TRUE]
Sqrt(n) == [sqrt |-> n]
\* the length of the vector v is a whole number: Math.sqrt is exact
IsWhole(v) == \E k \in 0 .. Abs(v.x) + Abs(v.y) : k * k = v.length.sqrt

\* xDiff(a, b) of toVector: longitudinal difference (inc dateline
\* transition)
xDiff(a, b) ==
    LET bx == IF a > 170 /\ b < 0 THEN a + (180 - a) + (180 + b)
              ELSE IF a < -170 /\ b > 0 THEN a - (180 + a) - (180 - b)
              ELSE b
    IN bx - a

\* toVector(origin, end)
toVector(origin, end) ==
    LET x == xDiff(origin.longitude, end.longitude)
        y == end.latitude - origin.latitude
    IN [x |-> x, y |-> y, length |-> Sqrt(x * x + y * y)]

\* (va.x * vb.x + va.y * vb.y) / (va.length * vb.length): NaN for 0 / 0,
\* otherwise a number of the sign of the dividend, which lies within
\* [-1, 1] unless the vectors are parallel, the dividend then being as
\* large as the product of the lengths, and that product was rounded to
\* less (beyond)
cosine(va, vb, beyond) ==
    LET dot == va.x * vb.x + va.y * vb.y
        parallel == va.x * vb.y = va.y * vb.x
    IN IF va.length = Sqrt(0) \/ vb.length = Sqrt(0) THEN NaN
       ELSE [sign |-> IF dot < 0 THEN -1 ELSE IF dot > 0 THEN 1 ELSE 0,
             beyond |-> parallel /\ beyond]

\* Math.acos(q) > Math.PI / 2: Math.acos is NaN for NaN and outside
\* [-1, 1], and a comparison with NaN is false
acosObtuse(q) == q # NaN /\ ~q.beyond /\ q.sign < 0

\* the roundings that Math.sqrt and the product of the lengths allow:
\* none when both lengths are whole numbers
roundings(va, vb) ==
    IF IsWhole(va) /\ IsWhole(vb) THEN {FALSE} ELSE BOOLEAN

\* passedPerpendicular taking NaN for an angle of more than 90 degrees
passedPerpendicular_NaN(vesselPosition, destination, startPoint, beyond) ==
    LET va == toVector(destination, vesselPosition)
        vb == toVector(destination, startPoint)
        q == cosine(va, vb, beyond)
    IN q = NaN \/ q.beyond \/ q.sign < 0

\* passedPerpendicular(vesselPosition, destination, startPoint): true if
\* vessel is past perpendicular of destination
passedPerpendicular(vesselPosition, destination, startPoint, beyond) ==
    LET va == toVector(destination, vesselPosition)
        vb == toVector(destination, startPoint)
    IN acosObtuse(cosine(va, vb, beyond))

\* calcs with a cross-track error of its own for the Rhumbline result
calcs_RhumbCrossTrack(src) ==
    IF ~(Truthy(src.position) /\ Truthy(src.nextPoint)
           /\ Has(src.previousPoint, "position"))
    THEN [gc |-> EmptyObj, rl |-> EmptyObj, passedPerpendicular |-> FALSE]
    ELSE
    LET p == src.position
        xte == crossTrackDistanceTo(p)
        magVar == IF Field(src, "magneticVariation") \in {Null, Undefined}
                  THEN 0 ELSE Field(src, "magneticVariation").num
        vmgValue == vmg(src)
        bearingTrackTrue == trackBearing(src)
        bearingTrue == initialBearingTo(p)
        gcDistance == p.gc
        gcVmc == vmc(src, bearingTrue, "true")
        gcTime == timeCalcs(src, Num(gcDistance), gcVmc, FALSE)
        rlBearingTrackTrue == trackBearing(src)
        rlBearingTrue == rhumbBearingTo(p)
        rlDistance == p.rl
        rlVmc == vmc(src, rlBearingTrue, "true")
        rlTime == timeCalcs(src, Num(rlDistance), rlVmc, TRUE)
    IN [gc |-> [calcMethod |-> "GreatCircle",
                bearingTrackTrue |-> bearingTrackTrue,
                bearingTrackMagnetic |->
                    compassAngle(bearingTrackTrue + magVar),
                crossTrackError |-> xte,
                distance |-> gcDistance,
                bearingTrue |-> bearingTrue,
                bearingMagnetic |-> compassAngle(bearingTrue + magVar),
                velocityMadeGood |-> vmgValue,
                velocityMadeGoodToCourse |-> gcVmc,
                timeToGo |-> gcTime.nextPoint.ttg,
                estimatedTimeOfArrival |-> gcTime.nextPoint.eta,
                previousPoint |-> [distance |-> distanceToStart(p)],
                route |-> [timeToGo |-> gcTime.route.ttg,
                           estimatedTimeOfArrival |-> gcTime.route.eta,
                           distance |-> gcTime.route.dtg],
                targetSpeed |-> targetSpeed(src, Num(gcDistance), FALSE)],
        rl |-> [calcMethod |-> "Rhumbline",
                bearingTrackTrue |-> rlBearingTrackTrue,
                bearingTrackMagnetic |->
                    compassAngle(rlBearingTrackTrue + magVar),
                crossTrackError |-> xte + rlDistance - gcDistance,
                distance |-> rlDistance,
                bearingTrue |-> rlBearingTrue,
                bearingMagnetic |-> compassAngle(rlBearingTrue + magVar),
                velocityMadeGood |-> vmgValue,
                velocityMadeGoodToCourse |-> rlVmc,
                timeToGo |-> rlTime.nextPoint.ttg,
                estimatedTimeOfArrival |-> rlTime.nextPoint.eta,
                previousPoint |-> [distance |-> rhumbDistanceToStart(p)],
                route |-> [timeToGo |-> rlTime.route.ttg,
                           estimatedTimeOfArrival |-> rlTime.route.eta,
                           distance |-> rlTime.route.dtg],
                targetSpeed |-> targetSpeed(src, Num(rlDistance), TRUE)],
        passedPerpendicular |-> p.passed]
\* calcs(src): the course calculations
calcs(src) ==
    IF ~(Truthy(src.position) /\ Truthy(src.nextPoint)
           /\ Has(src.previousPoint, "position"))
    THEN [gc |-> EmptyObj, rl |-> EmptyObj, passedPerpendicular |-> FALSE]
    ELSE
    LET p == src.position
        xte == crossTrackDistanceTo(p)
        magVar == IF Field(src, "magneticVariation") \in {Null, Undefined}
                  THEN 0 ELSE Field(src, "magneticVariation").num
        vmgValue == vmg(src)
        bearingTrackTrue == trackBearing(src)
        bearingTrue == initialBearingTo(p)
        gcDistance == p.gc
        gcVmc == vmc(src, bearingTrue, "true")
        gcTime == timeCalcs(src, Num(gcDistance), gcVmc, FALSE)
        rlBearingTrackTrue == trackBearing(src)
        rlBearingTrue == rhumbBearingTo(p)
        rlDistance == p.rl
        rlVmc == vmc(src, rlBearingTrue, "true")
        rlTime == timeCalcs(src, Num(rlDistance), rlVmc, TRUE)
    IN [gc |-> [calcMethod |-> "GreatCircle",
                bearingTrackTrue |-> bearingTrackTrue,
                bearingTrackMagnetic |->
                    compassAngle(bearingTrackTrue + magVar),
                crossTrackError |-> xte,
                distance |-> gcDistance,
                bearingTrue |-> bearingTrue,
                bearingMagnetic |-> compassAngle(bearingTrue + magVar),
                velocityMadeGood |-> vmgValue,
                velocityMadeGoodToCourse |-> gcVmc,
                timeToGo |-> gcTime.nextPoint.ttg,
                estimatedTimeOfArrival |-> gcTime.nextPoint.eta,
                previousPoint |-> [distance |-> distanceToStart(p)],
                route |-> [timeToGo |-> gcTime.route.ttg,
                           estimatedTimeOfArrival |-> gcTime.route.eta,
                           distance |-> gcTime.route.dtg],
                targetSpeed |-> targetSpeed(src, Num(gcDistance), FALSE)],
        rl |-> [calcMethod |-> "Rhumbline",
                bearingTrackTrue |-> rlBearingTrackTrue,
                bearingTrackMagnetic |->
                    compassAngle(rlBearingTrackTrue + magVar),
                crossTrackError |-> xte,
                distance |-> rlDistance,
                bearingTrue |-> rlBearingTrue,
                bearingMagnetic |-> compassAngle(rlBearingTrue + magVar),
                velocityMadeGood |-> vmgValue,
                velocityMadeGoodToCourse |-> rlVmc,
                timeToGo |-> rlTime.nextPoint.ttg,
                estimatedTimeOfArrival |-> rlTime.nextPoint.eta,
                previousPoint |-> [distance |-> rhumbDistanceToStart(p)],
                route |-> [timeToGo |-> rlTime.route.ttg,
                           estimatedTimeOfArrival |-> rlTime.route.eta,
                           distance |-> rlTime.route.dtg],
                targetSpeed |-> targetSpeed(src, Num(rlDistance), TRUE)],
        passedPerpendicular |-> p.passed]
\* the handler posting the empty result for every snapshot that lacks a
\* required position
onMessage_EveryCycle(active, message) ==
    IF parseSKPaths(message)
    THEN [post |-> <<calcs(message)>>, activeDest |-> TRUE]
    ELSE [post |-> <<EmptyResult>>, activeDest |-> FALSE]

\* the handler keeping activeDest set when it posts the empty result
onMessage_StaysActive(active, message) ==
    IF parseSKPaths(message)
    THEN [post |-> <<calcs(message)>>, activeDest |-> TRUE]
    ELSE IF active
    THEN [post |-> <<EmptyResult>>, activeDest |-> active]
    ELSE [post |-> <<>>, activeDest |-> active]

\* parentPort.on('message'): what is posted back and the new activeDest
onMessage(active, message) ==
    IF parseSKPaths(message)
    THEN [post |-> <<calcs(message)>>, activeDest |-> TRUE]
    ELSE IF active
    THEN [post |-> <<EmptyResult>>, activeDest |-> FALSE]
    ELSE [post |-> <<>>, activeDest |-> active]

----------------------------------------------------------------------------
(* index.ts: the plugin *)

ArrivalPath == "navigation.course.arrivalCircleEntered"
PassedPath == "navigation.course.perpendicularPassed"

\* new Notification(path, msg, state, method).message
Notification(path, msg, state, method) ==
    [path |-> "notifications." \o path,
     value |-> IF msg # Null
               THEN [state |-> state, method |-> method, message |-> msg]
               ELSE Null]

\* onArrivalCircleEvent(event): the notifications emitted; wa is
\* watchArrival at the time of the event
onArrivalCircleEvent(cfg, src, wa, event) ==
    LET alarmMethod == IF cfg.sound THEN <<"sound", "visual">>
                       ELSE <<"visual">>
    IN (IF event.type = "enter" /\ Truthy(src.position)
        THEN <<Notification(ArrivalPath,
                            [entered |-> event.value,
                             rangeMax |-> wa.rangeMax],
                            "alert", alarmMethod)>>
        ELSE <<>>)
       \o
       (IF event.type = "exit"
        THEN <<Notification(ArrivalPath, Null, "alert",
                            <<"sound", "visual">>)>>
        ELSE <<>>)

\* onPassedDestEvent without the test of the vessel position
onPassedDestEvent_NoGuard(src, wp, event) ==
    (IF event.type = "enter"
     THEN <<Notification(PassedPath, Str(wp.val), "alert", <<>>)>>
     ELSE <<>>)
    \o
    (IF event.type = "exit"
     THEN <<Notification(PassedPath, Null, "alert", <<"sound", "visual">>)>>
     ELSE <<>>)

\* onPassedDestEvent(event): wp is watchPassedDest at the time of the event
onPassedDestEvent(src, wp, event) ==
    (IF event.type = "enter" /\ Truthy(src.position)
     THEN <<Notification(PassedPath, Str(wp.val), "alert", <<>>)>>
     ELSE <<>>)
    \o
    (IF event.type = "exit"
     THEN <<Notification(PassedPath, Null, "alert", <<"sound", "visual">>)>>
     ELSE <<>>)

\* buildDeltaMsg(course): the values published under
\* navigation.course.calcValues
buildDeltaMsg(cfg, course) ==
    LET source == IF cfg.method = "Rhumbline" THEN course.rl ELSE course.gc
    IN [values |->
          [calcMethod |-> IF Has(source, "calcMethod")
                          THEN Str(source.calcMethod) ELSE Undefined,
           distance |-> IF Has(source, "distance")
                        THEN Num(source.distance) ELSE Null]]

buildMetaDeltaMsg == [meta |-> {"calcMethod", "distance"}]

\* GET calcValues: the status and the body of the response
getCalcValues(cfg, course) ==
    LET selected == IF course = Undefined THEN Undefined
                    ELSE IF cfg.method = "Rhumbline" THEN course.rl
                    ELSE course.gc
    IN IF ~Truthy(selected)
       THEN [status |-> 400,
             json |-> [state |-> "FAILED", statusCode |-> 400,
                       message |-> "No active destination!"]]
       ELSE [status |-> 200, json |-> selected]

\* calc() posting the snapshot in place of the ones still pending
calc_LatestWins(inbox, src) ==
    IF Truthy(src.position)
    THEN <<src>>
    ELSE inbox

\* calc(): worker.postMessage(srcPaths) copies srcPaths into the worker's
\* message queue
calc(inbox, src) ==
    IF Truthy(src.position)
    THEN Append(inbox, src)
    ELSE inbox

\* watchPassedDest after 'rangeMin = 1; rangeMax = 2' on a new Watcher
NewWatchPassedDest ==
    WSetRangeMax(WSetRangeMin(NewWatcher, Num(1)).w, Num(2)).w

\* calcResult leaving the watched distance alone when the result has none
calcResult_KeepDistance(cfg, src, wa, wp, meta, result) ==
    LET circle == IF src.arrivalCircle # Null THEN src.arrivalCircle
                  ELSE Num(-1)
        distance == IF Has(result.gc, "distance") THEN Num(result.gc.distance)
                    ELSE Undefined
        passed == IF Has(result, "passedPerpendicular")
                     /\ result.passedPerpendicular
                  THEN Num(1) ELSE Num(0)
        r1 == WSetRangeMax(wa, circle)
        n1 == IF r1.ev = <<>> THEN <<>>
              ELSE onArrivalCircleEvent(cfg, src, r1.w, r1.ev[1])
        r2 == WSetValue(r1.w, distance)
        n2 == IF r2.ev = <<>> THEN <<>>
              ELSE onArrivalCircleEvent(cfg, src, r2.w, r2.ev[1])
        r3 == WSetValue(wp, passed)
        n3 == IF r3.ev = <<>> THEN <<>>
              ELSE onPassedDestEvent(src, r3.w, r3.ev[1])
    IN [watchArrival |-> r2.w,
        watchPassedDest |-> r3.w,
        courseCalcs |-> result,
        metaSent |-> TRUE,
        sent |-> n1 \o n2 \o n3 \o <<buildDeltaMsg(cfg, result)>>
                 \o (IF meta THEN <<>> ELSE <<buildMetaDeltaMsg>>)]

\* calcResult taking a null arrival circle for the radius 0
calcResult_NullIsZero(cfg, src, wa, wp, meta, result) ==
    LET circle == IF src.arrivalCircle # Null THEN src.arrivalCircle
                  ELSE Num(0)
        distance == IF Has(result.gc, "distance") THEN Num(result.gc.distance)
                    ELSE Num(-1)
        passed == IF Has(result, "passedPerpendicular")
                     /\ result.passedPerpendicular
                  THEN Num(1) ELSE Num(0)
        r1 == WSetRangeMax(wa, circle)
        n1 == IF r1.ev = <<>> THEN <<>>
              ELSE onArrivalCircleEvent(cfg, src, r1.w, r1.ev[1])
        r2 == WSetValue(r1.w, distance)
        n2 == IF r2.ev = <<>> THEN <<>>
              ELSE onArrivalCircleEvent(cfg, src, r2.w, r2.ev[1])
        r3 == WSetValue(wp, passed)
        n3 == IF r3.ev = <<>> THEN <<>>
              ELSE onPassedDestEvent(src, r3.w, r3.ev[1])
    IN [watchArrival |-> r2.w,
        watchPassedDest |-> r3.w,
        courseCalcs |-> result,
        metaSent |-> TRUE,
        sent |-> n1 \o n2 \o n3 \o <<buildDeltaMsg(cfg, result)>>
                 \o (IF meta THEN <<>> ELSE <<buildMetaDeltaMsg>>)]

\* calcResult(result): the watchers, courseCalcs and the messages sent
calcResult(cfg, src, wa, wp, meta, result) ==
    LET circle == IF src.arrivalCircle # Null THEN src.arrivalCircle
                  ELSE Num(-1)
        distance == IF Has(result.gc, "distance") THEN Num(result.gc.distance)
                    ELSE Num(-1)
        passed == IF Has(result, "passedPerpendicular")
                     /\ result.passedPerpendicular
                  THEN Num(1) ELSE Num(0)
        r1 == WSetRangeMax(wa, circle)
        n1 == IF r1.ev = <<>> THEN <<>>
              ELSE onArrivalCircleEvent(cfg, src, r1.w, r1.ev[1])
        r2 == WSetValue(r1.w, distance)
        n2 == IF r2.ev = <<>> THEN <<>>
              ELSE onArrivalCircleEvent(cfg, src, r2.w, r2.ev[1])
        r3 == WSetValue(wp, passed)
        n3 == IF r3.ev = <<>> THEN <<>>
              ELSE onPassedDestEvent(src, r3.w, r3.ev[1])
    IN [watchArrival |-> r2.w,
        watchPassedDest |-> r3.w,
        courseCalcs |-> result,
        metaSent |-> TRUE,
        sent |-> n1 \o n2 \o n3 \o <<buildDeltaMsg(cfg, result)>>
                 \o (IF meta THEN <<>> ELSE <<buildMetaDeltaMsg>>)]

\* the plugin after doStartup(options) on a server without values
HostStart(options) ==
    /\ config = options
    /\ srcPaths = NoPaths
    /\ watchArrival = NewWatcher
    /\ watchPassedDest = NewWatchPassedDest
    /\ courseCalcs = Undefined
    /\ metaSent = FALSE
    /\ workerInbox = <<>>
    /\ activeDest = FALSE
    /\ hostInbox = <<>>
    /\ sent = <<>>
    /\ baconSub = TRUE
    /\ obs = TRUE

\* stream update of navigation.position: store the value and calc(); at
\* most maxInFlight snapshots and results are in flight
OnPosition(v, maxInFlight) ==
    /\ baconSub
    /\ Truthy(v) => Len(workerInbox) + Len(hostInbox) < maxInFlight
    /\ srcPaths' = [srcPaths EXCEPT !.position = v]
    /\ workerInbox' = calc(workerInbox, srcPaths')
    /\ UNCHANGED <<config, watchArrival, watchPassedDest, courseCalcs,
                   metaSent, activeDest, hostInbox, sent, baconSub, obs>>

\* stream update of navigation.course.arrivalCircle
OnArrivalCircle(v) ==
    /\ baconSub
    /\ srcPaths' = [srcPaths EXCEPT !.arrivalCircle = v]
    /\ UNCHANGED <<config, watchArrival, watchPassedDest, courseCalcs,
                   metaSent, workerInbox, activeDest, hostInbox, sent,
                   baconSub, obs>>

\* stream update of navigation.course.nextPoint
OnNextPoint(v) ==
    /\ baconSub
    /\ srcPaths' = [srcPaths EXCEPT !.nextPoint = v]
    /\ UNCHANGED <<config, watchArrival, watchPassedDest, courseCalcs,
                   metaSent, workerInbox, activeDest, hostInbox, sent,
                   baconSub, obs>>

\* stream update of navigation.course.previousPoint
OnPreviousPoint(v) ==
    /\ baconSub
    /\ srcPaths' = [srcPaths EXCEPT !.previousPoint = v]
    /\ UNCHANGED <<config, watchArrival, watchPassedDest, courseCalcs,
                   metaSent, workerInbox, activeDest, hostInbox, sent,
                   baconSub, obs>>

\* the worker takes the oldest snapshot of its queue
WorkerMessage ==
    /\ workerInbox # <<>>
    /\ LET r == onMessage(activeDest, Head(workerInbox))
       IN /\ hostInbox' = hostInbox \o r.post
          /\ activeDest' = r.activeDest
    /\ workerInbox' = Tail(workerInbox)
    /\ UNCHANGED <<config, srcPaths, watchArrival, watchPassedDest,
                   courseCalcs, metaSent, sent, baconSub, obs>>

\* worker.on('message'): the plugin handles the oldest result
CalcResult ==
    /\ hostInbox # <<>>
    /\ LET r == calcResult(config, srcPaths, watchArrival, watchPassedDest,
                           metaSent, Head(hostInbox))
       IN /\ watchArrival' = r.watchArrival
          /\ watchPassedDest' = r.watchPassedDest
          /\ courseCalcs' = r.courseCalcs
          /\ metaSent' = r.metaSent
          /\ sent' = IF obs THEN r.sent
                     ELSE SelectSeq(r.sent, LAMBDA m : ~Has(m, "path"))
    /\ hostInbox' = Tail(hostInbox)
    /\ UNCHANGED <<config, srcPaths, workerInbox, activeDest, baconSub, obs>>

----------------------------------------------------------------------------
(* A Watcher driven by arbitrary calls *)

NoCall == [op |-> "none", arg |-> Undefined]

WatcherInit ==
    /\ w = NewWatcher
    /\ prev = NewWatcher
    /\ last = NoCall
    /\ emitted = <<>>
    /\ nth = 0

SweepIdle ==
    /\ phase = "config"
    /\ fed = <<>>
    /\ log = <<>>

CalcIdle ==
    /\ handled = Null
    /\ rteLen = Null
    /\ args = Null
    /\ returned = Null

SetValue(x) ==
    LET r == WSetValue(w, x)
    IN /\ w' = r.w
       /\ emitted' = r.ev
       /\ prev' = w
       /\ last' = [op |-> "setValue", arg |-> x]
       /\ nth' = IF IsNumber(x) /\ x.num # w.val
                 THEN IF nth + 1 = w.sampleSize THEN 0 ELSE nth + 1
                 ELSE nth

SetRangeMin(x) ==
    LET r == WSetRangeMin(w, x)
    IN /\ w' = r.w
       /\ emitted' = r.ev
       /\ prev' = w
       /\ last' = [op |-> "setRangeMin", arg |-> x]
       /\ nth' = nth

SetRangeMax(x) ==
    LET r == WSetRangeMax(w, x)
    IN /\ w' = r.w
       /\ emitted' = r.ev
       /\ prev' = w
       /\ last' = [op |-> "setRangeMax", arg |-> x]
       /\ nth' = nth

SetSampleSize(x) ==
    /\ w' = WSetSampleSize(w, x)
    /\ emitted' = <<>>
    /\ prev' = w
    /\ last' = [op |-> "setSampleSize", arg |-> x]
    /\ nth' = 0

Init ==
    /\ WatcherInit
    /\ SweepIdle
    /\ CalcIdle
    /\ HostStart(DefaultConfig)

CallSetValue(x) ==
    SetValue(x) /\ UNCHANGED <<sweepVars, hostVars, calcVars>>
CallSetRangeMin(x) ==
    SetRangeMin(x) /\ UNCHANGED <<sweepVars, hostVars, calcVars>>
CallSetRangeMax(x) ==
    SetRangeMax(x) /\ UNCHANGED <<sweepVars, hostVars, calcVars>>
CallSetSampleSize(x) ==
    SetSampleSize(x) /\ UNCHANGED <<sweepVars, hostVars, calcVars>>

Next ==
    \/ \E x \in JsValues : CallSetValue(x)
    \/ \E x \in JsValues : CallSetRangeMin(x)
    \/ \E x \in JsValues : CallSetRangeMax(x)
    \/ \E x \in SampleSizes : CallSetSampleSize(x)

Spec == Init /\ [][Next]_vars

----------------------------------------------------------------------------
(* A Watcher whose sampleSize is never set, and a Watcher whose latest *)
(* event is kept                                                       *)

\* calls of the value and range setters only: sampleSize stays 1
UnitSampleNext ==
    \/ \E x \in JsValues : CallSetValue(x)
    \/ \E x \in JsValues : CallSetRangeMin(x)
    \/ \E x \in JsValues : CallSetRangeMax(x)

UnitSampleSpec == Init /\ [][UnitSampleNext]_vars

\* a subscriber of change$ keeping the event a call emits, if any, in log
Subscriber ==
    /\ log' = IF emitted' = <<>> THEN log ELSE emitted'
    /\ UNCHANGED <<phase, fed, hostVars, calcVars>>

EmitSetValue(x) == SetValue(x) /\ Subscriber
EmitSetRangeMin(x) == SetRangeMin(x) /\ Subscriber
EmitSetRangeMax(x) == SetRangeMax(x) /\ Subscriber
EmitSetSampleSize(x) == SetSampleSize(x) /\ Subscriber

EventNext ==
    \/ \E x \in JsValues : EmitSetValue(x)
    \/ \E x \in JsValues : EmitSetRangeMin(x)
    \/ \E x \in JsValues : EmitSetRangeMax(x)
    \/ \E x \in SampleSizes : EmitSetSampleSize(x)

EventSpec == Init /\ [][EventNext]_vars

----------------------------------------------------------------------------
(* The plugin and its worker *)

HostInit ==
    /\ WatcherInit
    /\ SweepIdle
    /\ CalcIdle
    /\ \E options \in Options : HostStart(options)

StreamPosition(v) ==
    OnPosition(v, MaxPending) /\ UNCHANGED <<watcherVars, sweepVars, calcVars>>
StreamArrivalCircle(v) ==
    OnArrivalCircle(v) /\ UNCHANGED <<watcherVars, sweepVars, calcVars>>
StreamNextPoint(v) ==
    OnNextPoint(v) /\ UNCHANGED <<watcherVars, sweepVars, calcVars>>
StreamPreviousPoint(v) ==
    OnPreviousPoint(v) /\ UNCHANGED <<watcherVars, sweepVars, calcVars>>
WorkerStep == WorkerMessage /\ UNCHANGED <<watcherVars, sweepVars, calcVars>>
HostStep == CalcResult /\ UNCHANGED <<watcherVars, sweepVars, calcVars>>

HostNext ==
    \/ \E v \in Positions : StreamPosition(v)
    \/ \E v \in Circles : StreamArrivalCircle(v)
    \/ \E v \in Waypoints : StreamNextPoint(v)
    \/ \E v \in Waypoints : StreamPreviousPoint(v)
    \/ WorkerStep
    \/ HostStep

HostSpec == HostInit /\ [][HostNext]_vars

----------------------------------------------------------------------------
(* The queues between the plugin and its worker: positions posted faster   *)
(* than the worker takes them, the arrival circle never set                *)

\* positions that differ in their great-circle distance only
QueuePositions ==
    {p \in Points : p.rl = p.gc /\ ~p.passed} \cup {Null}

QueuePosition(v) ==
    OnPosition(v, MaxQueued) /\ UNCHANGED <<watcherVars, sweepVars, calcVars>>

QueueInit ==
    /\ WatcherInit
    /\ SweepIdle
    /\ CalcIdle
    /\ HostStart(DefaultConfig)

QueueNext ==
    \/ \E v \in QueuePositions : QueuePosition(v)
    \/ \E v \in Waypoints : StreamNextPoint(v)
    \/ \E v \in Waypoints : StreamPreviousPoint(v)
    \/ WorkerStep
    \/ HostStep

QueueSpec == QueueInit /\ [][QueueNext]_vars

----------------------------------------------------------------------------
(* The worker handling one snapshot of any content *)

\* nextPoint / previousPoint: null, an object without position, set
WorkerWaypoints == {Null, [href |-> "route"], Waypoint}

\* vessel positions before the perpendicular of the destination
WorkerPositions == {p \in Points : ~p.passed} \cup {Null}

\* activeRoute with its waypoints, heading for the waypoint of index 0
SampleRoute(waypoints) ==
    [waypoints |-> waypoints, pointIndex |-> Num(0), reverse |-> FALSE]

\* no activeRoute, one whose waypoints are not set, routes of 0 to 3
\* waypoints
SampleRoutes ==
    {Undefined, SampleRoute(Undefined), SampleRoute(Arr(<<>>)),
     SampleRoute(Arr(<<0>>)), SampleRoute(Arr(<<0, 1>>)),
     SampleRoute(Arr(<<0, 1, 3>>))}

\* course over ground along the bearing to the destination or against it
Snapshots ==
    [position : WorkerPositions,
     nextPoint : WorkerWaypoints,
     previousPoint : WorkerWaypoints,
     magneticVariation : {Undefined, Num(1)},
     courseOverGroundTrue : {Undefined, Num(0), Num(Pi)},
     speedOverGround : {Undefined} \cup {Num(v) : v \in 0 .. MaxSpeed},
     windAngleTrueGround : {Undefined, Num(0)},
     datetime : {Undefined, Date(1)},
     targetArrivalTime : {Undefined} \cup {Date(t) : t \in 0 .. MaxTime},
     activeRoute : SampleRoutes]

\* the plugin idle, one snapshot in the worker's queue, the worker with or
\* without an active destination
WorkerInit ==
    /\ WatcherInit
    /\ SweepIdle
    /\ CalcIdle
    /\ config = DefaultConfig
    /\ srcPaths = NoPaths
    /\ watchArrival = NewWatcher
    /\ watchPassedDest = NewWatchPassedDest
    /\ courseCalcs = Undefined
    /\ metaSent = FALSE
    /\ workerInbox \in {<<src>> : src \in Snapshots}
    /\ activeDest \in BOOLEAN
    /\ hostInbox = <<>>
    /\ sent = <<>>
    /\ baconSub = TRUE
    /\ obs = TRUE

\* parentPort.on('message') on the snapshot, which is recorded
WorkerReceive ==
    /\ WorkerMessage
    /\ handled' = Head(workerInbox)
    /\ UNCHANGED <<watcherVars, sweepVars, rteLen, args, returned>>

WorkerSpec == WorkerInit /\ [][WorkerReceive]_vars

----------------------------------------------------------------------------
(* The plugin and its worker, the snapshot taken by the worker recorded; *)
(* one snapshot or result in flight, so that a result the plugin handles *)
(* was computed from the snapshot recorded                               *)

DeliveryNext ==
    \/ \E v \in QueuePositions : StreamPosition(v)
    \/ \E v \in Circles : StreamArrivalCircle(v)
    \/ \E v \in Waypoints : StreamNextPoint(v)
    \/ \E v \in Waypoints : StreamPreviousPoint(v)
    \/ WorkerReceive
    \/ HostStep

DeliverySpec == QueueInit /\ [][DeliveryNext]_vars

----------------------------------------------------------------------------
(* The plugin stopped at any time, with snapshots and results in flight *)

\* doShutdown(): the stream subscriptions and the subscriptions to the
\* Watchers' events are removed; worker.unref() leaves the worker, its
\* queue and the handler of its messages in place
DoShutdown ==
    /\ baconSub
    /\ baconSub' = FALSE
    /\ obs' = FALSE
    /\ UNCHANGED <<config, srcPaths, watchArrival, watchPassedDest,
                   courseCalcs, metaSent, workerInbox, activeDest, hostInbox,
                   sent>>

Stop == DoShutdown /\ UNCHANGED <<watcherVars, sweepVars, calcVars>>

StopNext ==
    \/ \E v \in QueuePositions : QueuePosition(v)
    \/ \E v \in Circles : StreamArrivalCircle(v)
    \/ \E v \in Waypoints : StreamNextPoint(v)
    \/ \E v \in Waypoints : StreamPreviousPoint(v)
    \/ WorkerStep
    \/ HostStep
    \/ Stop

StopSpec == QueueInit /\ [][StopNext]_vars

----------------------------------------------------------------------------
(* The plugin and its worker, the calcValues endpoint requested at any *)
(* time                                                                *)

\* a GET request of the endpoint; the response is recorded
GetCalcValues ==
    /\ returned' = getCalcValues(config, courseCalcs)
    /\ UNCHANGED <<watcherVars, sweepVars, hostVars, handled, rteLen, args>>

EndpointNext ==
    \/ \E v \in QueuePositions : StreamPosition(v)
    \/ \E v \in Waypoints : StreamNextPoint(v)
    \/ \E v \in Waypoints : StreamPreviousPoint(v)
    \/ WorkerStep
    \/ HostStep
    \/ GetCalcValues

EndpointSpec == HostInit /\ [][EndpointNext]_vars

----------------------------------------------------------------------------
(* routeRemaining on one snapshot with any active route *)

\* routes of up to MaxWaypoints waypoints, the index of any of them or the
\* one behind
Routes ==
    {Undefined} \cup
    [waypoints : {Undefined} \cup
                 {Arr(ws) : ws \in UNION {[1 .. n -> 0 .. MaxCoord] :
                                             n \in 0 .. MaxWaypoints}},
     pointIndex : {Null} \cup {Num(i) : i \in 0 .. MaxWaypoints},
     reverse : BOOLEAN]

\* a snapshot with the required positions, the vessel under way towards
\* the destination, and an active route
RouteSnapshot(r) ==
    [position |-> [gc |-> 1, rl |-> 2, passed |-> FALSE],
     nextPoint |-> Waypoint,
     previousPoint |-> Waypoint,
     courseOverGroundTrue |-> Num(0),
     speedOverGround |-> Num(1),
     activeRoute |-> r]

RouteInit ==
    /\ WatcherInit
    /\ SweepIdle
    /\ CalcIdle
    /\ config = DefaultConfig
    /\ srcPaths = NoPaths
    /\ watchArrival = NewWatcher
    /\ watchPassedDest = NewWatchPassedDest
    /\ courseCalcs = Undefined
    /\ metaSent = FALSE
    /\ workerInbox \in {<<RouteSnapshot(r)>> : r \in Routes}
    /\ activeDest = FALSE
    /\ hostInbox = <<>>
    /\ sent = <<>>
    /\ baconSub = TRUE
    /\ obs = TRUE

\* parentPort.on('message') on the snapshot, with what routeRemaining(src,
\* rhumbLine) returns to timeCalcs for the GreatCircle and for the
\* Rhumbline result
RouteRemaining ==
    /\ WorkerMessage
    /\ handled' = Head(workerInbox)
    /\ rteLen' = [gc |-> routeRemaining(Head(workerInbox), FALSE),
                  rl |-> routeRemaining(Head(workerInbox), TRUE)]
    /\ UNCHANGED <<watcherVars, sweepVars, args, returned>>

RouteSpec == RouteInit /\ [][RouteRemaining]_vars

----------------------------------------------------------------------------
(* The worker handling one snapshot with any bearings and variation *)

\* vessel positions off the leg, with any bearings to the destination
BearingPoints ==
    [gc : {1}, rl : {2}, passed : {FALSE},
     xte : -MaxXte .. MaxXte,
     bearing : 0 .. TwoPi - 1,
     rhumbBearing : 0 .. TwoPi - 1,
     track : 0 .. TwoPi - 1]

\* snapshots with the required positions
BearingSnapshots ==
    [position : BearingPoints,
     nextPoint : {Waypoint},
     previousPoint : {Waypoint},
     magneticVariation :
         {Undefined, Null}
           \cup {Num(v) : v \in -MaxVariation .. MaxVariation},
     courseOverGroundTrue :
         {Undefined} \cup {Num(a) : a \in 0 .. TwoPi - 1},
     courseOverGroundMagnetic : {Undefined, Num(0), Num(Pi)},
     speedOverGround : {Undefined} \cup {Num(v) : v \in 0 .. MaxSpeed},
     windAngleTrueGround : {Undefined, Num(0), Num(Pi)}]

\* the course over ground is along a bearing or against it
AlongOrAgainst(cog, bearing) ==
    IsNumber(cog) => (bearing - cog.num) % Pi = 0

BearingInit ==
    /\ WatcherInit
    /\ SweepIdle
    /\ CalcIdle
    /\ config = DefaultConfig
    /\ srcPaths = NoPaths
    /\ watchArrival = NewWatcher
    /\ watchPassedDest = NewWatchPassedDest
    /\ courseCalcs = Undefined
    /\ metaSent = FALSE
    /\ workerInbox \in
          {<<src>> : src \in
              {t \in BearingSnapshots :
                  \A cog \in {t.courseOverGroundTrue,
                               t.courseOverGroundMagnetic} :
                      /\ AlongOrAgainst(cog, t.position.bearing)
                      /\ AlongOrAgainst(cog, t.position.rhumbBearing)}}
    /\ activeDest = FALSE
    /\ hostInbox = <<>>
    /\ sent = <<>>
    /\ baconSub = TRUE
    /\ obs = TRUE

BearingSpec == BearingInit /\ [][WorkerReceive]_vars

----------------------------------------------------------------------------
(* The worker, just started, handling a run of snapshots *)

\* snapshots with and without each of the required positions
RunSnapshots ==
    [position : {Null, [gc |-> 1, rl |-> 1, passed |-> FALSE]},
     nextPoint : WorkerWaypoints,
     previousPoint : WorkerWaypoints]

\* up to MaxRun snapshots in the worker's queue, 'let activeDest = false'
RunInit ==
    /\ WatcherInit
    /\ SweepIdle
    /\ CalcIdle
    /\ config = DefaultConfig
    /\ srcPaths = NoPaths
    /\ watchArrival = NewWatcher
    /\ watchPassedDest = NewWatchPassedDest
    /\ courseCalcs = Undefined
    /\ metaSent = FALSE
    /\ workerInbox \in UNION {[1 .. n -> RunSnapshots] : n \in 1 .. MaxRun}
    /\ activeDest = FALSE
    /\ hostInbox = <<>>
    /\ sent = <<>>
    /\ baconSub = TRUE
    /\ obs = TRUE

RunSpec == RunInit /\ [][WorkerReceive]_vars

----------------------------------------------------------------------------
(* The angle functions of the worker called on any angles *)

\* the plugin and the worker idle, no snapshot under way
PluginIdle ==
    /\ WatcherInit
    /\ SweepIdle
    /\ config = DefaultConfig
    /\ srcPaths = NoPaths
    /\ watchArrival = NewWatcher
    /\ watchPassedDest = NewWatchPassedDest
    /\ courseCalcs = Undefined
    /\ metaSent = FALSE
    /\ workerInbox = <<>>
    /\ activeDest = FALSE
    /\ hostInbox = <<>>
    /\ sent = <<>>
    /\ baconSub = TRUE
    /\ obs = TRUE
    /\ handled = Null
    /\ rteLen = Null

\* angles of up to MaxAngle quarter turns either way
Angles == -MaxAngle .. MaxAngle

AngleInit ==
    /\ PluginIdle
    /\ args \in [op : {"normalise"}, a : Angles]
                \cup [op : {"difference"}, h : Angles, b : Angles]
    /\ returned = Null

\* compassAngle(a) and Angle.normalise(a), each once and on its own result
NormaliseAngle ==
    /\ args.op = "normalise"
    /\ returned = Null
    /\ returned' =
          [compassAngle |-> compassAngle(args.a),
           compassAngleTwice |-> compassAngle(compassAngle(args.a)),
           normalise |-> normalise(args.a),
           normaliseTwice |-> normalise(normalise(args.a))]
    /\ UNCHANGED <<watcherVars, sweepVars, hostVars, handled, rteLen, args>>

\* Angle.difference(h, b)
AngleDifference ==
    /\ args.op = "difference"
    /\ returned = Null
    /\ returned' = [difference |-> difference(args.h, args.b)]
    /\ UNCHANGED <<watcherVars, sweepVars, hostVars, handled, rteLen, args>>

AngleNext ==
    \/ NormaliseAngle
    \/ AngleDifference

AngleSpec == AngleInit /\ [][AngleNext]_vars

----------------------------------------------------------------------------
(* passedPerpendicular called on any three positions *)

\* the prime meridian, the antimeridian, the meridians at which xDiff
\* changes and two in between
Meridians == {-180, -170, -90, 0, 90, 170, 180}

Longitudes ==
    {m + o : m \in Meridians, o \in -MaxOffset .. MaxOffset}
      \cap (-180 .. 180)

LatLons == [latitude : -MaxLat .. MaxLat, longitude : Longitudes]

\* the destination on the equator: only differences of latitude are used
PerpendicularInit ==
    /\ PluginIdle
    /\ args \in [op : {"passedPerpendicular"},
                 vesselPosition : LatLons,
                 destination : [latitude : {0}, longitude : Longitudes],
                 startPoint : LatLons]
    /\ returned = Null

\* passedPerpendicular(vesselPosition, destination, startPoint), with the
\* vectors it computed
PassedPerpendicular ==
    /\ args.op = "passedPerpendicular"
    /\ returned = Null
    /\ LET va == toVector(args.destination, args.vesselPosition)
           vb == toVector(args.destination, args.startPoint)
       IN \E beyond \in roundings(va, vb) :
              returned' =
                  [passed |-> passedPerpendicular(args.vesselPosition,
                                  args.destination, args.startPoint,
                                  beyond),
                   va |-> va,
                   vb |-> vb]
    /\ UNCHANGED <<watcherVars, sweepVars, hostVars, handled, rteLen, args>>

PerpendicularSpec == PerpendicularInit /\ [][PassedPerpendicular]_vars

----------------------------------------------------------------------------
(* index.ts as of v1.0.0: buildDeltaMsg publishing both results *)

\* typeof x === 'undefined' ? null : x
OrNull(x) == IF x = Undefined THEN Null ELSE x

\* the ten values published from one result under the path of its method;
\* for crossTrackError the Rhumbline block reads bearingTrackMagnetic
courseValues(courseType, result) ==
    LET nextPoint == Field(result, "nextPoint")
        previousPoint == Field(result, "previousPoint")
    IN <<[path |-> <<courseType, "bearingTrackTrue">>,
          value |-> OrNull(Field(result, "bearingTrackTrue"))],
         [path |-> <<courseType, "bearingTrackMagnetic">>,
          value |-> OrNull(Field(result, "bearingTrackMagnetic"))],
         [path |-> <<courseType, "crossTrackError">>,
          value |-> IF courseType = "navigation.courseRhumbline"
                    THEN OrNull(Field(result, "bearingTrackMagnetic"))
                    ELSE OrNull(Field(result, "crossTrackError"))],
         [path |-> <<courseType, "previousPoint.distance">>,
          value |-> OrNull(Field(previousPoint, "distance"))],
         [path |-> <<courseType, "nextPoint.distance">>,
          value |-> OrNull(Field(nextPoint, "distance"))],
         [path |-> <<courseType, "nextPoint.bearingTrue">>,
          value |-> OrNull(Field(nextPoint, "bearingTrue"))],
         [path |-> <<courseType, "nextPoint.bearingMagnetic">>,
          value |-> OrNull(Field(nextPoint, "bearingMagnetic"))],
         [path |-> <<courseType, "nextPoint.velocityMadeGood">>,
          value |-> OrNull(Field(nextPoint, "velocityMadeGood"))],
         [path |-> <<courseType, "nextPoint.timeToGo">>,
          value |-> OrNull(Field(nextPoint, "timeToGo"))],
         [path |-> <<courseType, "nextPoint.estimatedTimeOfArrival">>,
          value |-> OrNull(Field(nextPoint, "estimatedTimeOfArrival"))]>>

\* buildDeltaMsg(course) of v1.0.0
buildDualPathDeltaMsg(course) ==
    [updates |->
        <<[values |->
              courseValues("navigation.courseGreatCircle", course.gc)
                \o courseValues("navigation.courseRhumbline", course.rl)]>>]

\* nextPoint of a result of v1.0.0
DualNextPoint ==
    [distance |-> Num(1), bearingTrue |-> Num(0), bearingMagnetic |-> Num(1),
     velocityMadeGood |-> Null, timeToGo |-> Null,
     estimatedTimeOfArrival |-> Null]

\* the results of v1.0.0: empty, or with fields that are numbers, null or
\* undefined
DualResults ==
    {EmptyObj} \cup
    [bearingTrackTrue : {Num(0)},
     bearingTrackMagnetic : {Undefined, Num(1), Num(Pi)},
     crossTrackError :
         {Undefined, Null} \cup {Num(x) : x \in -MaxXte .. MaxXte},
     previousPoint : {[distance |-> Num(2)]},
     nextPoint : {Undefined, DualNextPoint}]

DeltaInit ==
    /\ PluginIdle
    /\ args \in [op : {"buildDeltaMsg"},
                 course : [gc : DualResults, rl : DualResults]]
    /\ returned = Null

\* buildDeltaMsg(course)
BuildDeltaMsg ==
    /\ args.op = "buildDeltaMsg"
    /\ returned = Null
    /\ returned' = buildDualPathDeltaMsg(args.course)
    /\ UNCHANGED <<watcherVars, sweepVars, hostVars, handled, rteLen, args>>

DeltaSpec == DeltaInit /\ [][BuildDeltaMsg]_vars

----------------------------------------------------------------------------
(* A Watcher with default sampleSize whose bounds are set once and which  *)
(* is then fed a strictly increasing sequence of values                   *)

Bounds == {Num(n) : n \in Values}

SweepConfigMin(x) ==
    /\ phase = "config"
    /\ SetRangeMin(x)
    /\ UNCHANGED <<sweepVars, hostVars, calcVars>>

SweepConfigMax(x) ==
    /\ phase = "config"
    /\ SetRangeMax(x)
    /\ UNCHANGED <<sweepVars, hostVars, calcVars>>

\* the first value of the sweep lies below rangeMin
SweepBegin(v) ==
    /\ phase = "config"
    /\ w.rangeMin <= w.rangeMax
    /\ ~w.inRange
    /\ v < w.rangeMin
    /\ SetValue(Num(v))
    /\ phase' = "sweep"
    /\ fed' = <<v>>
    /\ log' = emitted'
    /\ UNCHANGED <<hostVars, calcVars>>

\* every later value is greater than the one before
SweepFeed(v) ==
    /\ phase = "sweep"
    /\ v > fed[Len(fed)]
    /\ SetValue(Num(v))
    /\ fed' = Append(fed, v)
    /\ log' = log \o emitted'
    /\ UNCHANGED <<phase, hostVars, calcVars>>

SweepNext ==
    \/ \E x \in Bounds : SweepConfigMin(x)
    \/ \E x \in Bounds : SweepConfigMax(x)
    \/ \E v \in Values : SweepBegin(v)
    \/ \E v \in Values : SweepFeed(v)

SweepSpec == Init /\ [][SweepNext]_vars

----------------------------------------------------------------------------
(* Claims about the Watcher *)

IsCall(op) == last.op = op /\ IsNumber(last.arg)
EventsOfType(evs, t) == SelectSeq(evs, LAMBDA e : e.type = t)
FirstIndexOfType(evs, t) ==
    CHOOSE i \in 1 .. Len(evs) :
        evs[i].type = t /\ \A j \in 1 .. (i - 1) : evs[j].type # t

\* the sweep has passed through the window and ended above rangeMax
SweepComplete ==
    /\ phase = "sweep"
    /\ fed[Len(fed)] > w.rangeMax
    /\ \E i \in 1 .. Len(fed) : w.rangeMin <= fed[i] /\ fed[i] <= w.rangeMax

\* C1: a strictly increasing sweep from below rangeMin through the window
\* to above rangeMax emits exactly one 'enter' and then exactly one 'exit',
\* the 'enter' with fromBelow = true and the 'exit' with isBelow = false.
C1_SweepEnterThenExit ==
    SweepComplete =>
        LET enters == EventsOfType(log, "enter")
            exits == EventsOfType(log, "exit")
        IN /\ Len(enters) = 1
           /\ Len(exits) = 1
           /\ FirstIndexOfType(log, "enter") < FirstIndexOfType(log, "exit")
           /\ enters[1].fromBelow = TRUE
           /\ exits[1].isBelow = FALSE

\* C2: an 'enter' caused by setValue carries fromBelow = (the value stored
\* before the call < rangeMin).
C2_EnterFromBelowIsPrevious ==
    (IsCall("setValue") /\ ~prev.inRange /\ w.inRange) =>
        /\ Len(emitted) = 1
        /\ emitted[1].type = "enter"
        /\ emitted[1].fromBelow = (prev.val < prev.rangeMin)

\* C3: setValue with the stored value, or setRangeMin/setRangeMax with the
\* stored bound, emits nothing and leaves every field of the watcher as it
\* was.
C3_NoOpIsSilent ==
    /\ (IsCall("setValue") /\ last.arg.num = prev.val)
          => (emitted = <<>> /\ w = prev)
    /\ (IsCall("setRangeMin") /\ last.arg.num = prev.rangeMin)
          => (emitted = <<>> /\ w = prev)
    /\ (IsCall("setRangeMax") /\ last.arg.num = prev.rangeMax)
          => (emitted = <<>> /\ w = prev)

\* a repeated value was fed to a watcher that is in range and debouncing
C3_Witness ==
    /\ IsCall("setValue")
    /\ last.arg.num = prev.val
    /\ prev.inRange
    /\ prev.sampleSize = 2

\* C4: with sampleSize 1 a setValue call with a changed value emits at most
\* one event, fixed by (in range before, in range after): out->in 'enter',
\* in->in 'in' with the new value, in->out 'exit' with
\* isBelow = (v < rangeMin), out->out nothing.
C4_TransitionTable ==
    (IsCall("setValue") /\ last.arg.num # prev.val /\ prev.sampleSize = 1) =>
        LET v == last.arg.num
            nowIn == prev.rangeMin <= v /\ v <= prev.rangeMax
        IN /\ Len(emitted) <= 1
           /\ (~prev.inRange /\ nowIn) =>
                 (Len(emitted) = 1 /\ emitted[1].type = "enter"
                    /\ emitted[1].value = v)
           /\ (prev.inRange /\ nowIn) =>
                 emitted = <<[type |-> "in", value |-> v]>>
           /\ (prev.inRange /\ ~nowIn) =>
                 emitted = <<[type |-> "exit", value |-> v,
                             isBelow |-> (v < prev.rangeMin)]>>
           /\ (~prev.inRange /\ ~nowIn) => emitted = <<>>

\* a value equal to rangeMax took the watcher into range
C4_Witness ==
    /\ IsCall("setValue")
    /\ prev.sampleSize = 1
    /\ ~prev.inRange
    /\ last.arg.num = prev.rangeMax
    /\ last.arg.num # prev.val
    /\ Len(emitted) = 1
    /\ emitted[1].type = "enter"

\* C5: with sampleSize N only the N-th changed value since the last
\* evaluation (or since sampleSize was set) is evaluated; the N-1 before it
\* emit nothing and leave the in-range flag alone; the counter is 0 after an
\* evaluation.
C5_Debounce ==
    /\ w.sampleCount = nth
    /\ (IsCall("setValue") /\ last.arg.num # prev.val) =>
          IF nth = 0
          THEN /\ w.inRange = (prev.rangeMin <= last.arg.num
                                 /\ last.arg.num <= prev.rangeMax)
               /\ w.sampleCount = 0
          ELSE /\ emitted = <<>>
               /\ w.inRange = prev.inRange

\* the second changed value since sampleSize was set to 2 was evaluated and
\* emitted an event
C5_Witness ==
    /\ IsCall("setValue")
    /\ last.arg.num # prev.val
    /\ prev.sampleSize = 2
    /\ prev.sampleCount = 1
    /\ nth = 0
    /\ emitted # <<>>

\* C6: a setRangeMin/setRangeMax call that changes the bound re-evaluates
\* rangeMin <= storedValue <= rangeMax with the stored value and applies
\* the transition rules of setValue.
C6_RangeChangeReevaluates ==
    ((IsCall("setRangeMin") /\ last.arg.num # prev.rangeMin)
       \/ (IsCall("setRangeMax") /\ last.arg.num # prev.rangeMax)) =>
        LET newMin == IF last.op = "setRangeMin" THEN last.arg.num
                      ELSE prev.rangeMin
            newMax == IF last.op = "setRangeMax" THEN last.arg.num
                      ELSE prev.rangeMax
            v == prev.val
            nowIn == newMin <= v /\ v <= newMax
        IN /\ w.inRange = nowIn
           /\ w.val = v
           /\ (~prev.inRange /\ nowIn) =>
                 (Len(emitted) = 1 /\ emitted[1].type = "enter"
                    /\ emitted[1].value = v)
           /\ (prev.inRange /\ nowIn) =>
                 emitted = <<[type |-> "in", value |-> v]>>
           /\ (prev.inRange /\ ~nowIn) =>
                 (Len(emitted) = 1 /\ emitted[1].type = "exit"
                    /\ emitted[1].value = v)
           /\ (~prev.inRange /\ ~nowIn) => emitted = <<>>

\* lowering rangeMax alone took the watcher out of range
C6_Witness ==
    /\ IsCall("setRangeMax")
    /\ last.arg.num < prev.rangeMax
    /\ prev.inRange
    /\ Len(emitted) = 1
    /\ emitted[1].type = "exit"

----------------------------------------------------------------------------
(* Claims about the plugin and its worker *)

\* this step is calcResult handling the oldest result
Handles == Len(hostInbox') < Len(hostInbox)

\* the alert notifications on a path among the messages sent
Raised(msgs, path) ==
    SelectSeq(msgs, LAMBDA m : /\ Has(m, "path")
                               /\ m.path = "notifications." \o path
                               /\ m.value # Null)

\* the clearing notifications (null value) on a path among the messages sent
Cleared(msgs, path) ==
    SelectSeq(msgs, LAMBDA m : /\ Has(m, "path")
                               /\ m.path = "notifications." \o path
                               /\ m.value = Null)

\* the distance published at navigation.course.calcValues.distance for a
\* result (Null before the first result)
PublishedDistance(course) ==
    IF course = Undefined THEN Null
    ELSE buildDeltaMsg(config, course).values.distance

\* passedPerpendicular of a handled result, false when there is none
PassedOf(course) ==
    Has(course, "passedPerpendicular") /\ course.passedPerpendicular

\* C7 as claimed: once the plugin has handled the empty result of a lost
\* destination it has emitted exactly one clearing notification for it.
C7_OneClearingPerLoss ==
    (courseCalcs = EmptyResult) =>
        Len(Cleared(sent, ArrivalPath)) + Len(Cleared(sent, PassedPath)) = 1

\* C7 amended: an empty result is handled only directly after a computed
\* one (never twice in a row), and handling it emits at most one clearing
\* notification per alert: one for perpendicularPassed exactly when
\* watchPassedDest was in range, one for arrivalCircleEntered whenever
\* watchArrival was in range.
C7_ClearingPerRaisedAlert ==
    [][(Handles /\ courseCalcs' = EmptyResult) =>
          /\ courseCalcs # EmptyResult
          /\ Len(Cleared(sent', ArrivalPath)) <= 1
          /\ Len(Cleared(sent', PassedPath)) <= 1
          /\ watchArrival.inRange => Len(Cleared(sent', ArrivalPath)) = 1
          /\ watchPassedDest.inRange <=> Len(Cleared(sent', PassedPath)) = 1
      ]_vars

\* the destination was lost with both alerts raised: both were cleared
C7_Witness ==
    /\ courseCalcs = EmptyResult
    /\ Len(Cleared(sent, ArrivalPath)) = 1
    /\ Len(Cleared(sent, PassedPath)) = 1

C9_AlertOnEnteringCircle ==
    [][(/\ Handles
        /\ Truthy(srcPaths.position)
        /\ IsNumber(srcPaths.arrivalCircle)
        /\ IsNumber(PublishedDistance(courseCalcs))
        /\ IsNumber(PublishedDistance(courseCalcs'))
        /\ PublishedDistance(courseCalcs).num > srcPaths.arrivalCircle.num
        /\ PublishedDistance(courseCalcs').num <= srcPaths.arrivalCircle.num)
          => Len(Raised(sent', ArrivalPath)) >= 1
      ]_vars

\* C10: handling a result emits a perpendicularPassed alert exactly when
\* passedPerpendicular went from false to true and a vessel position is
\* present, a clearing notification exactly when it went from true to false
\* (the empty result of a lost destination counts as false), and nothing
\* when it is unchanged.
C10_PerpendicularPassed ==
    [][Handles =>
          /\ Len(Raised(sent', PassedPath)) =
                IF /\ ~PassedOf(courseCalcs)
                   /\ PassedOf(courseCalcs')
                   /\ Truthy(srcPaths.position)
                THEN 1 ELSE 0
          /\ Len(Cleared(sent', PassedPath)) =
                IF PassedOf(courseCalcs) /\ ~PassedOf(courseCalcs')
                THEN 1 ELSE 0
      ]_vars

\* the alert was raised on handling a result with passedPerpendicular
C10_Witness ==
    /\ PassedOf(courseCalcs)
    /\ Len(Raised(sent, PassedPath)) = 1

\* the notification paths the README documents
DocumentedPaths ==
    {"notifications.navigation.arrivalCircleEntered",
     "notifications.navigation.perpendicularPassed"}

\* the elements of a sequence
Elems(seq) == {seq[i] : i \in DOMAIN seq}

\* C11: every notification the plugin sends, raising or clearing, is
\* published at notifications.navigation.arrivalCircleEntered or at
\* notifications.navigation.perpendicularPassed.
C11_NotificationPaths ==
    \A m \in Elems(sent) : Has(m, "path") => m.path \in DocumentedPaths

\* C12: with 'Enable sound' set every raised notification carries the
\* 'sound' method, and without it none does.
C12_SoundFollowsOption ==
    \A m \in Elems(sent) :
        (Has(m, "path") /\ m.value # Null) =>
            ("sound" \in Elems(m.value.method) <=> config.sound)

\* C13: the value published at navigation.course.calcValues.calcMethod is
\* never undefined, also not when the empty result of a cleared course is
\* handled: it is a computed value or null.
C13_CalcMethodDefined ==
    \A m \in Elems(sent) :
        Has(m, "values") => m.values.calcMethod # Undefined

----------------------------------------------------------------------------
(* Claims about the worker's calculations *)

\* the worker has handled its snapshot
Handled == handled # Null

\* a required position is absent from the snapshot handled
LacksPosition ==
    \/ handled.position \in {Null, Undefined}
    \/ ~Has(handled.nextPoint, "position")
    \/ ~Has(handled.previousPoint, "position")

\* C14: for a snapshot from which the vessel position, the destination
\* position or the leg-origin position is absent the worker posts nothing
\* but, at most, the empty result {gc: {}, rl: {}}: no result with a
\* computed field.
C14_NoPartialComputation ==
    (Handled /\ LacksPosition) =>
        \A r \in Elems(hostInbox) : r = EmptyResult

\* a snapshot with a destination that has no position, handled while a
\* destination was active: the empty result was posted
C14_Witness ==
    /\ Handled
    /\ Truthy(handled.position)
    /\ Truthy(handled.nextPoint)
    /\ ~Has(handled.nextPoint, "position")
    /\ hostInbox = <<EmptyResult>>

\* an optional input is missing from the snapshot handled
Missing(path) == Field(handled, path) \in {Null, Undefined}

\* the snapshot handled has no active route
NoRoute == Field(handled, "activeRoute") = Undefined

\* the waypoints of the active route of the snapshot handled, none without
\* a route or without its waypoints
RouteWaypoints ==
    LET waypoints == Field(Field(handled, "activeRoute"), "waypoints")
    IN IF IsArray(waypoints) THEN waypoints.arr ELSE <<>>

\* the reference time of the snapshot handled, in seconds
ReferenceTime ==
    IF Missing("datetime") THEN Now ELSE handled.datetime.time

\* the GreatCircle and the Rhumbline result posted for the snapshot handled
Results == {hostInbox[1].gc, hostInbox[1].rl}

\* the fields that need the required positions only are numbers
AlwaysComputed(c) ==
    /\ \A f \in {"bearingTrackTrue", "bearingTrackMagnetic", "bearingTrue",
                  "bearingMagnetic", "distance", "crossTrackError"} :
          Has(c, f) /\ c[f] \in Int
    /\ c.previousPoint.distance \in Int

\* C15 as claimed: with the required positions present one result is
\* posted, its position-only fields are computed, and each of
\* velocityMadeGood, velocityMadeGoodToCourse, timeToGo, ETA, route.* and
\* targetSpeed is null exactly when one of its own inputs is missing.
C15_NullExactlyWhenMissing ==
    (Handled /\ ~LacksPosition) =>
        /\ Len(hostInbox) = 1
        /\ \A c \in Results :
              /\ AlwaysComputed(c)
              /\ c.velocityMadeGood = Null <=>
                    (Missing("windAngleTrueGround")
                       \/ Missing("speedOverGround"))
              /\ c.velocityMadeGoodToCourse = Null <=>
                    (Missing("courseOverGroundTrue")
                       \/ Missing("speedOverGround"))
              /\ \A t \in {c.timeToGo, c.estimatedTimeOfArrival} :
                    t = Null <=> (Missing("courseOverGroundTrue")
                                    \/ Missing("speedOverGround"))
              /\ \A t \in {c.route.timeToGo, c.route.distance,
                            c.route.estimatedTimeOfArrival} :
                    t = Null <=> (Missing("courseOverGroundTrue")
                                    \/ Missing("speedOverGround")
                                    \/ NoRoute)
              /\ c.targetSpeed = Null <=> Missing("targetArrivalTime")

\* C15 amended: with the required positions present one result is posted
\* whatever optional inputs are missing, and in both of its results the
\* position-only fields are computed; velocityMadeGood is null exactly
\* when wind angle or speed over ground is missing,
\* velocityMadeGoodToCourse exactly when course or speed over ground is
\* missing; timeToGo and ETA are null exactly when velocityMadeGoodToCourse
\* is null or zero, route.* exactly when timeToGo is null or the route has
\* no waypoint, targetSpeed exactly when the target arrival time is
\* missing or not after the reference time.
C15_OptionalInputsDegrade ==
    (Handled /\ ~LacksPosition) =>
        /\ Len(hostInbox) = 1
        /\ \A c \in Results :
              /\ AlwaysComputed(c)
              /\ c.velocityMadeGood = Null <=>
                    (Missing("windAngleTrueGround")
                       \/ Missing("speedOverGround"))
              /\ c.velocityMadeGoodToCourse = Null <=>
                    (Missing("courseOverGroundTrue")
                       \/ Missing("speedOverGround"))
              /\ \A t \in {c.timeToGo, c.estimatedTimeOfArrival} :
                    t = Null <=>
                        c.velocityMadeGoodToCourse \in {Null, Num(0)}
              /\ \A t \in {c.route.timeToGo, c.route.distance,
                            c.route.estimatedTimeOfArrival} :
                    t = Null <=>
                        (c.timeToGo = Null \/ RouteWaypoints = <<>>)
              /\ c.targetSpeed = Null <=>
                    \/ Missing("targetArrivalTime")
                    \/ handled.targetArrivalTime.time <= ReferenceTime

\* a result computed with every optional input missing
C15_Witness ==
    /\ Handled
    /\ ~LacksPosition
    /\ \A path \in {"magneticVariation", "courseOverGroundTrue",
                     "speedOverGround", "windAngleTrueGround", "datetime",
                     "targetArrivalTime", "activeRoute"} :
          Field(handled, path) = Undefined
    /\ Len(hostInbox) = 1
    /\ AlwaysComputed(hostInbox[1].gc)
    /\ hostInbox[1].gc.timeToGo = Null

\* m is x / v seconds in whole milliseconds, rounded down
IsFloorMsec(m, x, v) ==
    IF v > 0
    THEN m * v <= 1000 * x /\ 1000 * x < (m + 1) * v
    ELSE m * v >= 1000 * x /\ 1000 * x > (m + 1) * v

\* m is x / v seconds in whole milliseconds, the fraction cut off
IsTruncatedMsec(m, x, v) ==
    /\ Abs(m) * Abs(v) <= 1000 * x
    /\ 1000 * x < (Abs(m) + 1) * Abs(v)
    /\ (m # 0) => (m > 0 <=> v > 0)

\* C16 as claimed: timeToGo and estimatedTimeOfArrival are both null when
\* distance or VMC is missing or zero; otherwise timeToGo is distance / vmc
\* seconds truncated to whole milliseconds and estimatedTimeOfArrival is
\* the reference timestamp plus timeToGo.
C16_NullWhenDistanceOrVmcZero ==
    (Handled /\ ~LacksPosition) =>
        \A c \in Results :
            IF c.distance = 0 \/ c.velocityMadeGoodToCourse \in {Null, Num(0)}
            THEN c.timeToGo = Null /\ c.estimatedTimeOfArrival = Null
            ELSE /\ IsNumber(c.timeToGo)
                 /\ c.timeToGo.den = 1000
                 /\ IsTruncatedMsec(c.timeToGo.num, c.distance,
                                    c.velocityMadeGoodToCourse.num)
                 /\ c.estimatedTimeOfArrival =
                       IsoString(ReferenceTime * 1000 + c.timeToGo.num)

\* C16 amended: timeToGo and estimatedTimeOfArrival are both null when VMC
\* is missing or zero; otherwise, also at distance zero, timeToGo is
\* distance / vmc seconds rounded down to whole milliseconds (towards
\* minus infinity when VMC is negative) and estimatedTimeOfArrival is the
\* reference timestamp plus timeToGo.
C16_TimeToGoFloored ==
    (Handled /\ ~LacksPosition) =>
        \A c \in Results :
            IF c.velocityMadeGoodToCourse \in {Null, Num(0)}
            THEN c.timeToGo = Null /\ c.estimatedTimeOfArrival = Null
            ELSE /\ IsNumber(c.timeToGo)
                 /\ c.timeToGo.den = 1000
                 /\ IsFloorMsec(c.timeToGo.num, c.distance,
                                c.velocityMadeGoodToCourse.num)
                 /\ c.estimatedTimeOfArrival =
                       IsoString(ReferenceTime * 1000 + c.timeToGo.num)

\* one metre at three metres per second with navigation.datetime set:
\* 0.333 s, and the same away from the destination: -0.334 s
C16_Witness ==
    /\ Handled
    /\ ~LacksPosition
    /\ ~Missing("datetime")
    /\ hostInbox[1].gc.distance = 1
    /\ \/ /\ hostInbox[1].gc.velocityMadeGoodToCourse = Num(3)
          /\ hostInbox[1].gc.timeToGo = Frac(333, 1000)
          /\ hostInbox[1].gc.estimatedTimeOfArrival = IsoString(1333)
       \/ /\ hostInbox[1].gc.velocityMadeGoodToCourse = Num(-3)
          /\ hostInbox[1].gc.timeToGo = Frac(-334, 1000)
          /\ hostInbox[1].gc.estimatedTimeOfArrival = IsoString(666)

\* the route fields of a result
RouteFields(c) ==
    {c.route.timeToGo, c.route.estimatedTimeOfArrival, c.route.distance}

----------------------------------------------------------------------------
(* Claims about routeRemaining *)

\* the active route of the snapshot handled is a route with its waypoints
\* and the index of the current one
HasRoute ==
    /\ Handled
    /\ ~NoRoute
    /\ IsArray(handled.activeRoute.waypoints)
    /\ IsNumber(handled.activeRoute.pointIndex)

CurrentIndex == handled.activeRoute.pointIndex.num
LastIndex == Len(RouteWaypoints) - 1
Reverse == handled.activeRoute.reverse

RECURSIVE LegsBetween(_, _, _)
\* the length of the legs k -> k + 1 of the route, lo <= k < hi, by the
\* Rhumbline or the GreatCircle distance
LegsBetween(lo, hi, rhumbLine) ==
    IF hi <= lo THEN 0
    ELSE LegsBetween(lo, hi - 1, rhumbLine)
         + (IF rhumbLine
            THEN rhumbDistanceTo(RouteWaypoints[hi], RouteWaypoints[hi + 1])
            ELSE distanceTo(RouteWaypoints[hi], RouteWaypoints[hi + 1]))

NoLength == [gc |-> 0, rl |-> 0]

\* C18 as claimed: routeRemaining returns 0 for a route of fewer than 2
\* waypoints, and 0 when currentIndex is the last index and reverse is
\* false or currentIndex is the first index (0) and reverse is true.
C18_ZeroAtCurrentIndexBoundary ==
    HasRoute =>
        /\ (Len(RouteWaypoints) < 2) => rteLen = NoLength
        /\ (~Reverse /\ CurrentIndex = LastIndex) => rteLen = NoLength
        /\ (Reverse /\ CurrentIndex = 0) => rteLen = NoLength

\* C18 amended: routeRemaining returns 0 for a route of fewer than 2
\* waypoints, and 0 when currentIndex is the last index, whether reverse
\* is false or true (reversed, the mirrored index lastIndex - currentIndex
\* is then the first index 0).
C18_ZeroAtLastIndex ==
    HasRoute =>
        /\ (Len(RouteWaypoints) < 2) => rteLen = NoLength
        /\ (CurrentIndex = LastIndex) => rteLen = NoLength

\* a reversed route of distinct waypoints with currentIndex the last index
C18_Witness ==
    /\ HasRoute
    /\ Reverse
    /\ LastIndex >= 1
    /\ CurrentIndex = LastIndex
    /\ LegsBetween(0, LastIndex, FALSE) > 0
    /\ rteLen = NoLength

\* C19: for a reversed route of at least 2 waypoints routeRemaining
\* returns the length of the legs k -> k + 1 for
\* 0 <= k < lastIndex - currentIndex only.
C19_ReverseSumsToMirroredIndex ==
    (HasRoute /\ Reverse /\ LastIndex >= 1
       /\ CurrentIndex >= 0 /\ CurrentIndex <= LastIndex) =>
        rteLen = [gc |-> LegsBetween(0, LastIndex - CurrentIndex, FALSE),
                  rl |-> LegsBetween(0, LastIndex - CurrentIndex, TRUE)]

\* C20: for a forward route and 0 <= currentIndex < lastIndex
\* routeRemaining returns the length of the legs k -> k + 1 for
\* currentIndex <= k < lastIndex, rhumb lengths for the Rhumbline result
\* and great-circle lengths for the GreatCircle result, and route.distance
\* is the vessel's distance to the destination plus that length.
C20_ForwardSumAddedToDistance ==
    (HasRoute /\ ~Reverse /\ CurrentIndex >= 0 /\ CurrentIndex < LastIndex)
      =>
        /\ rteLen = [gc |-> LegsBetween(CurrentIndex, LastIndex, FALSE),
                     rl |-> LegsBetween(CurrentIndex, LastIndex, TRUE)]
        /\ hostInbox[1].gc.route.distance =
              Num(handled.position.gc + rteLen.gc)
        /\ hostInbox[1].rl.route.distance =
              Num(handled.position.rl + rteLen.rl)

\* a forward route of three distinct waypoints at index 1: one leg remains
C20_Witness ==
    /\ HasRoute
    /\ ~Reverse
    /\ CurrentIndex = 1
    /\ LastIndex = 2
    /\ rteLen.gc > 0
    /\ rteLen.rl > rteLen.gc
    /\ rteLen.gc < LegsBetween(0, LastIndex, FALSE)
    /\ hostInbox[1].rl.route.distance = Num(2 + rteLen.rl)

\* routeRemaining for the snapshot handled, as targetSpeed adds it
Remaining(rhumbLine) ==
    IF NoRoute THEN 0 ELSE routeRemaining(handled, rhumbLine)

\* C21: targetSpeed is null when no target arrival time is set or when it
\* is at or before the reference time; otherwise it is (distance +
\* routeRemaining) / seconds until the target arrival time, with
\* routeRemaining = 0 without an active route: a quotient of a dividend that
\* is not negative by a positive divisor.
C21_TargetSpeed ==
    (Handled /\ ~LacksPosition) =>
        \A m \in {"gc", "rl"} :
            LET c == hostInbox[1][m]
                total == c.distance + Remaining(m = "rl")
            IN IF Missing("targetArrivalTime")
               THEN c.targetSpeed = Null
               ELSE LET seconds ==
                            handled.targetArrivalTime.time - ReferenceTime
                    IN IF seconds <= 0
                       THEN c.targetSpeed = Null
                       ELSE /\ c.targetSpeed =
                                  Frac(total * 1000, seconds * 1000)
                            /\ c.targetSpeed.num >= 0
                            /\ c.targetSpeed.den > 0

\* a target speed over the vessel's distance and the remaining route
C21_Witness ==
    /\ Handled
    /\ ~LacksPosition
    /\ ~NoRoute
    /\ Remaining(TRUE) > 0
    /\ IsNumber(hostInbox[1].rl.targetSpeed)
    /\ hostInbox[1].rl.targetSpeed.num =
          (hostInbox[1].rl.distance + Remaining(TRUE)) * 1000
    /\ hostInbox[1].rl.targetSpeed.num > 0

----------------------------------------------------------------------------
(* Claims about the angle functions *)

\* a function was called on its own and has returned
Returned(op) == args # Null /\ args.op = op /\ returned # Null

\* an angle of the compass: 0 <= a < 2 pi
IsCompassAngle(a) == a >= 0 /\ a < TwoPi

\* C22: compassAngle and Angle.normalise map every angle, of any magnitude
\* and sign, to a value in [0, 2 pi), and applying them to their own result
\* changes nothing.
C22_NormaliseAnyAngle ==
    Returned("normalise") =>
        /\ IsCompassAngle(returned.compassAngle)
        /\ IsCompassAngle(returned.normalise)
        /\ returned.compassAngleTwice = returned.compassAngle
        /\ returned.normaliseTwice = returned.normalise

\* the least of the angles between h and b, going either way round
Separation(h, b) ==
    LET m == (h - b) % TwoPi
    IN IF m < TwoPi - m THEN m ELSE TwoPi - m

\* C23: for h and b in [0, 2 pi) Angle.difference(h, b) lies in (-pi, pi]
\* and its absolute value is the smallest angular separation of h and b;
\* Angle.difference(x, x) = 0 for every x.
C23_DifferenceIsSeparation ==
    Returned("difference") =>
        /\ (IsCompassAngle(args.h) /\ IsCompassAngle(args.b)) =>
              /\ returned.difference > -Pi
              /\ returned.difference <= Pi
              /\ Abs(returned.difference) = Separation(args.h, args.b)
        /\ (args.h = args.b) => returned.difference = 0

\* opposite angles: the difference is half a turn, counted positive
C23_Witness ==
    /\ Returned("difference")
    /\ args.h = 0
    /\ args.b = Pi
    /\ returned.difference = Pi

----------------------------------------------------------------------------
(* Claims about bearings, velocities and the cross-track error *)

\* a result with computed fields was posted for the snapshot handled
NonEmptyResult ==
    /\ Handled
    /\ ~LacksPosition
    /\ Len(hostInbox) = 1

\* C24: in every non-empty result bearingMagnetic and bearingTrackMagnetic
\* are numbers in [0, 2 pi) for every magnetic variation of magnitude at
\* most pi, and they are the true bearings when the magnetic variation is
\* absent.
C24_MagneticBearings ==
    NonEmptyResult =>
        \A c \in Results :
            /\ (Missing("magneticVariation")
                  \/ Abs(handled.magneticVariation.num) <= Pi) =>
                  \A f \in {"bearingMagnetic", "bearingTrackMagnetic"} :
                      c[f] \in Int /\ IsCompassAngle(c[f])
            /\ Missing("magneticVariation") =>
                  /\ c.bearingMagnetic = c.bearingTrue
                  /\ c.bearingTrackMagnetic = c.bearingTrackTrue

\* a variation of half a turn either way on bearings that wrap in
\* opposite directions
C24_Witness ==
    /\ NonEmptyResult
    /\ ~Missing("magneticVariation")
    /\ Abs(handled.magneticVariation.num) = Pi
    /\ handled.position.bearing + handled.magneticVariation.num >= TwoPi
    /\ hostInbox[1].gc.bearingMagnetic =
          handled.position.bearing + handled.magneticVariation.num - TwoPi
    /\ hostInbox[1].rl.bearingTrue = 0
    /\ hostInbox[1].rl.bearingMagnetic = Pi

\* C25: velocityMadeGoodToCourse is null exactly when the true course
\* over ground or the speed over ground is not a number; otherwise it is
\* speedOverGround * cos(|Angle.difference(bearingTrue,
\* courseOverGroundTrue)|) with the true bearing of the same result, hence
\* the speed over ground when the course is the bearing, whatever the
\* magnetic course over ground.
C25_VelocityMadeGoodToCourse ==
    NonEmptyResult =>
        \A c \in Results :
            LET cog == Field(handled, "courseOverGroundTrue")
                sog == Field(handled, "speedOverGround")
            IN IF ~IsNumber(cog) \/ ~IsNumber(sog)
               THEN c.velocityMadeGoodToCourse = Null
               ELSE /\ c.velocityMadeGoodToCourse =
                          Num(sog.num *
                              Cos(Abs(difference(c.bearingTrue, cog.num))))
                    /\ (cog.num = c.bearingTrue) =>
                          c.velocityMadeGoodToCourse = sog

\* the course over ground is the great-circle bearing and opposite to the
\* rhumb-line bearing, the magnetic course differs: the results carry the
\* speed over ground and its negative
C25_Witness ==
    /\ NonEmptyResult
    /\ IsNumber(handled.courseOverGroundTrue)
    /\ handled.speedOverGround = Num(MaxSpeed)
    /\ handled.courseOverGroundMagnetic # handled.courseOverGroundTrue
    /\ handled.courseOverGroundTrue.num = hostInbox[1].gc.bearingTrue
    /\ hostInbox[1].gc.velocityMadeGoodToCourse = Num(MaxSpeed)
    /\ hostInbox[1].rl.velocityMadeGoodToCourse = Num(-MaxSpeed)

\* C29: in every non-empty result the GreatCircle and the Rhumbline result
\* carry the same crossTrackError, the cross-track distance of the vessel
\* from the great-circle path, and the same velocityMadeGood.
C29_SharedByBothResults ==
    NonEmptyResult =>
        LET gc == hostInbox[1].gc
            rl == hostInbox[1].rl
        IN /\ gc.crossTrackError = crossTrackDistanceTo(handled.position)
           /\ rl.crossTrackError = gc.crossTrackError
           /\ rl.velocityMadeGood = gc.velocityMadeGood

\* results that differ in distance and bearing with the same cross-track
\* error and velocity made good, neither of them zero
C29_Witness ==
    /\ NonEmptyResult
    /\ hostInbox[1].gc.distance # hostInbox[1].rl.distance
    /\ hostInbox[1].gc.bearingTrue # hostInbox[1].rl.bearingTrue
    /\ hostInbox[1].gc.crossTrackError = -MaxXte
    /\ hostInbox[1].rl.crossTrackError = -MaxXte
    /\ hostInbox[1].gc.velocityMadeGood = Num(-MaxSpeed)
    /\ hostInbox[1].rl.velocityMadeGood = Num(-MaxSpeed)

----------------------------------------------------------------------------
(* Claims about passedPerpendicular *)

\* x is the difference of longitude from a to b the short way round
IsShortWay(x, a, b) == Abs(x) <= 180 /\ (x - (b - a)) % 360 = 0

\* the difference of longitude from a to b the short way round, for
\* meridians that are not opposite
ShortWay(a, b) == ((b - a + 540) % 360) - 180

\* the vector from the destination to a position
VectorTo(end) ==
    [x |-> ShortWay(args.destination.longitude, end.longitude),
     y |-> end.latitude - args.destination.latitude]

Dot(va, vb) == va.x * vb.x + va.y * vb.y
IsZero(v) == v.x = 0 /\ v.y = 0

\* C26: passedPerpendicular is true exactly when the angle at the
\* destination between the vector to the vessel and the vector to the leg
\* origin exceeds 90 degrees: for non-zero vectors, exactly when their dot
\* product is negative.
C26_PassedIffObtuse ==
    Returned("passedPerpendicular") =>
        LET va == VectorTo(args.vesselPosition)
            vb == VectorTo(args.startPoint)
        IN (/\ ~IsZero(va)
            /\ ~IsZero(vb)
            /\ Abs(va.x) < 180
            /\ Abs(vb.x) < 180) =>
               (returned.passed <=> Dot(va, vb) < 0)

\* the vessel or the leg origin is at the destination
Degenerate ==
    \E end \in {args.vesselPosition, args.startPoint} :
        /\ end.latitude = args.destination.latitude
        /\ (end.longitude - args.destination.longitude) % 360 = 0

\* C27: with the vessel at the destination, or the leg origin at the
\* destination, passedPerpendicular returns false.
C27_DegenerateIsNotPassed ==
    (Returned("passedPerpendicular") /\ Degenerate) =>
        returned.passed = FALSE

\* the vessel at the destination on the antimeridian, given by its other
\* longitude, with the leg origin elsewhere
C27_Witness ==
    /\ Returned("passedPerpendicular")
    /\ args.destination = [latitude |-> 0, longitude |-> 180]
    /\ args.vesselPosition = [latitude |-> 0, longitude |-> -180]
    /\ args.startPoint.longitude = 170
    /\ returned.va.length = Sqrt(0)
    /\ returned.vb.length # Sqrt(0)
    /\ returned.passed = FALSE

\* C28: for every pair of longitudes in [-180, 180] the x component that
\* toVector computes is the difference of longitude the short way round,
\* of magnitude at most 180 degrees, also across the antimeridian.
C28_ShortWayLongitude ==
    Returned("passedPerpendicular") =>
        /\ IsShortWay(returned.va.x, args.destination.longitude,
                      args.vesselPosition.longitude)
        /\ IsShortWay(returned.vb.x, args.destination.longitude,
                      args.startPoint.longitude)

----------------------------------------------------------------------------
(* Claims about the delta of v1.0.0 *)

\* the values published at a path, in order
PublishedAt(path) ==
    SelectSeq(returned.updates[1].values, LAMBDA v : v.path = path)

\* C30: the value published at navigation.courseRhumbline.crossTrackError
\* is the crossTrackError of the Rhumbline result, null when that is
\* undefined.
C30_RhumblineCrossTrackError ==
    Returned("buildDeltaMsg") =>
        LET published ==
                PublishedAt(<<"navigation.courseRhumbline",
                              "crossTrackError">>)
        IN /\ Len(published) = 1
           /\ published[1].value =
                 OrNull(Field(args.course.rl, "crossTrackError"))

----------------------------------------------------------------------------
(* Claims about the loss of the destination, the events of a Watcher and *)
(* the plugin's life cycle                                               *)

\* C31: when the plugin handles the empty result, the arrival watcher is
\* left with the value -1 and not in range, whatever the arrival circle and
\* whatever it held before.
C31_ArrivalWatcherReset ==
    [][Handles /\ Head(hostInbox) = EmptyResult
       => /\ watchArrival'.val = -1
          /\ ~watchArrival'.inRange]_vars

\* the empty result was handled while the vessel was inside the arrival
\* circle: the watcher left the range and the alert was cleared
C31_Witness ==
    /\ courseCalcs = EmptyResult
    /\ watchArrival.val = -1
    /\ ~watchArrival.inRange
    /\ srcPaths.arrivalCircle = Num(0)
    /\ Cleared(sent, ArrivalPath) # <<>>

\* all required positions are present in a snapshot
Complete(src) ==
    /\ src.position \notin {Null, Undefined}
    /\ Has(src.nextPoint, "position")
    /\ Has(src.previousPoint, "position")

\* what the worker posts in this step
Posted == SubSeq(hostInbox', Len(hostInbox) + 1, Len(hostInbox'))

\* C32: for every snapshot with all required positions the worker posts
\* one computed result; for a snapshot lacking one it posts the empty
\* result if the snapshot before it had them all, and nothing if the
\* snapshot before it lacked one too or if there was none before it. The
\* snapshot before is the one recorded in handled.
C32_EmptyResultOncePerRun ==
    [][workerInbox' # workerInbox
       => LET src == Head(workerInbox)
          IN IF Complete(src)
             THEN /\ Len(Posted) = 1
                  /\ Posted[1] # EmptyResult
                  /\ Has(Posted[1].gc, "distance")
             ELSE IF handled # Null /\ Complete(handled)
             THEN Posted = <<EmptyResult>>
             ELSE Posted = <<>>]_vars

\* a snapshot with all positions followed by two that lack one: one
\* computed result and one empty result were posted
C32_Witness ==
    /\ workerInbox = <<>>
    /\ Len(hostInbox) = 2
    /\ hostInbox[1] # EmptyResult
    /\ hostInbox[2] = EmptyResult
    /\ handled # Null
    /\ ~Complete(handled)
    /\ ~activeDest

\* C33: sampleSize never set (it stays 1), after any calls of setValue,
\* setRangeMin and setRangeMax the in-range flag of the Watcher equals
\* rangeMin <= value <= rangeMax.
C33_FlagIsRangeTest ==
    w.inRange = (w.rangeMin <= w.val /\ w.val <= w.rangeMax)

\* the stored value came into range through a change of a bound
C33_Witness ==
    /\ w.sampleSize = 1
    /\ last.op = "setRangeMin"
    /\ ~prev.inRange
    /\ w.inRange
    /\ w.rangeMin <= w.val
    /\ w.val <= w.rangeMax

\* the type of the event emitted before this step, "none" if there is none
Latest == IF log = <<>> THEN "none" ELSE log[1].type

\* C34: over any calls of the four setters a call emits at most one event;
\* an 'enter' is the first event or follows an 'exit'; an 'exit' or an 'in'
\* follows an 'enter' or an 'in'. Hence 'enter' and 'exit' alternate,
\* starting with 'enter', and each 'in' lies between an 'enter' and the
\* next 'exit'.
C34_EnterExitAlternate ==
    [][emitted' # <<>>
       => /\ Len(emitted') = 1
          /\ emitted'[1].type \in {"enter", "exit", "in"}
          /\ emitted'[1].type = "enter" => Latest \in {"none", "exit"}
          /\ emitted'[1].type \in {"exit", "in"}
                => Latest \in {"enter", "in"}]_vars

\* with samples of two values, an 'exit' was emitted after an 'in'
C34_Witness ==
    /\ w.sampleSize = 2
    /\ prev.sampleSize = 2
    /\ emitted # <<>>
    /\ emitted[1].type = "exit"
    /\ log = emitted
    /\ last.op = "setValue"

\* C35: handling one result sends at most one arrivalCircleEntered
\* notification (alert or clearing), and an alert it sends reports the
\* distance of the result handled, never a distance stored from an earlier
\* result.
C35_OneNotificationOfThisResult ==
    [][Handles
       => LET result == Head(hostInbox)
              alerts == Raised(sent', ArrivalPath)
          IN /\ Len(alerts) + Len(Cleared(sent', ArrivalPath)) <= 1
             /\ \A i \in DOMAIN alerts :
                   /\ Has(result.gc, "distance")
                   /\ alerts[i].value.message.entered = result.gc.distance
      ]_vars

\* the radius of an arrival circle as the arrival watcher takes it
Radius(circle) == IF circle = Null THEN -1 ELSE circle.num

\* C36 as stated: the radius the plugin applies to the arrival watcher when
\* it handles a result is the radius of the snapshot the result was
\* computed from, which is the snapshot recorded by the worker.
C36_RadiusOfSnapshot ==
    [][Handles
       => watchArrival'.rangeMax = Radius(handled.arrivalCircle)]_vars

\* C36 amended: the radius applied is the arrival circle the plugin holds
\* at the time it handles the result, the latest stream value, and so the
\* radius of the snapshot when no update arrived since the snapshot was
\* posted.
C36_RadiusAtHandling ==
    [][Handles
       => /\ watchArrival'.rangeMax = Radius(srcPaths.arrivalCircle)
          /\ srcPaths.arrivalCircle = handled.arrivalCircle
                => watchArrival'.rangeMax = Radius(handled.arrivalCircle)
      ]_vars

\* the result of a snapshot without arrival circle was handled after the
\* arrival circle 0 had arrived
C36_Witness ==
    /\ workerInbox = <<>>
    /\ hostInbox = <<>>
    /\ handled # Null
    /\ parseSKPaths(handled)
    /\ courseCalcs = calcs(handled)
    /\ handled.arrivalCircle = Null
    /\ srcPaths.arrivalCircle = Num(0)
    /\ watchArrival.rangeMax = 0

\* stop() has returned
Stopped == ~baconSub /\ ~obs

\* C37: once the plugin is stopped no snapshot is posted to the worker and
\* no message (course-data delta, meta delta or notification) is passed to
\* the server, whatever was in flight when it stopped.
C37_SilentAfterStop ==
    [][Stopped
       => /\ Len(workerInbox') <= Len(workerInbox)
          /\ Handles => sent' = <<>>]_vars

\* a time to go, when computed, is not negative and its time of arrival
\* is not before the reference time
NotInPast(ttg, eta) ==
    ttg # Null => /\ ttg.num >= 0
                  /\ eta.iso >= ReferenceTime * 1000

\* C38: in both results of a snapshot, whatever the course over ground,
\* timeToGo and route.timeToGo are null or not negative, and the estimated
\* time of arrival that goes with each is not earlier than the reference
\* time.
C38_TimeToGoNotNegative ==
    (Handled /\ ~LacksPosition /\ hostInbox # <<>>) =>
        \A c \in Results :
            /\ NotInPast(c.timeToGo, c.estimatedTimeOfArrival)
            /\ NotInPast(c.route.timeToGo, c.route.estimatedTimeOfArrival)

\* no result was received yet, or the last one handled is the empty result
NoActiveDestination == courseCalcs \in {Undefined, EmptyResult}

\* C39: a request of the calcValues endpoint is answered 400 'No active
\* destination!' when no result was received yet and when the last result
\* handled is the empty result, and 200 with the result of the configured
\* method otherwise.
C39_EndpointWithoutDestination ==
    [][returned' # returned
       => IF NoActiveDestination
          THEN /\ returned'.status = 400
               /\ returned'.json.message = "No active destination!"
          ELSE /\ returned'.status = 200
               /\ returned'.json = IF config.method = "Rhumbline"
                                   THEN courseCalcs.rl ELSE courseCalcs.gc
      ]_vars

====
